---- MODULE Spec2Model ----
(***************************************************************************)
(* Commerce transaction core of the storefront bridge                      *)
(* (src/src/services/web_bridge.py, class WebsiteBridgeServer).            *)
(*                                                                         *)
(* The products, orders and pending_payments documents are the state.     *)
(* Spec runs every HTTP handler to completion, one at a time; SpecBuy is   *)
(* the same for stocking and /buy only, with a wider set of carts, SpecCat *)
(* for the catalogue handlers with a wider set of payloads, SpecOrders for *)
(* stocking, /buy with its notifications and the order-status endpoint.    *)
(* SpecConc runs two purchase requests as tasks that interleave at every   *)
(* awaited store read and write and at the awaited gateway call.           *)
(* SpecRetry repeats a /buy whose second store write failed; SpecStock     *)
(* runs a /buy and a stocking request as two such tasks; SpecPay runs      *)
(* /payments/create under the payment-method switches; SpecCache adds the  *)
(* response cache of GET /products to the handlers that write products.    *)
(*                                                                         *)
(* The users document, the one-time codes and the session tokens are the   *)
(* account state.  SpecAuth runs login, PUT /state/users and the           *)
(* authorisation middleware with 2FA off; SpecOtp runs login and           *)
(* verify-otp with 2FA on; SpecLogin runs two logins that interleave at    *)
(* the awaited e-mail; SpecUsers runs every handler that reads or writes   *)
(* the users document.  SpecBoot runs start over the key-value table and   *)
(* the JSON files, followed by loads and saves.  SpecRead runs             *)
(* registrations, purchases by the registered accounts and the reads of    *)
(* orders and invoices.                                                    *)
(*                                                                         *)
(* Representation:                                                         *)
(*  - a credential string is a positive number, the blank string is 0;     *)
(*    every stocking request carries strings never stocked before;         *)
(*  - "\n".join(delivered) is kept as the sequence of delivered strings;   *)
(*  - money is in thousandths of the currency unit, so that round(x, 2)    *)
(*    is a real rounding;                                                  *)
(*  - a line id is a pair: <<productId, tierId>> for the default           *)
(*    "productId::tierId" / "productId", <<id, "">> for a client id.        *)
(*  - a session token is a sequence of characters of which the payload    *)
(*    fields, ".", a blank and a byte above 127 are told apart; HMAC is    *)
(*    taken as collision-free, a digest being the key and the text;        *)
(*  - a password is <<>>, <<"raw", p>> or <<"pbkdf2_sha256", p>>;          *)
(*  - a JSON text is a sequence of tokens, "nl" being the line break that  *)
(*    json.dumps writes with indent=2; a JSON value is its type and its    *)
(*    number of entries.                                                   *)
(***************************************************************************)
EXTENDS Integers, Sequences, FiniteSets, TLC

VARIABLES products, orders, pending, now, nextCred, nextToken, origin, last,
          tasks, settledTokens,
          users, login_otp_sessions, login_otp_last_sent_at, login_2fa_ready,
          minted, sent,
          shop_kv, files, storage

\* the users document, the one-time codes in memory and what was handed out
accountVars == <<users, login_otp_sessions, login_otp_last_sent_at, login_2fa_ready,
                 minted, sent>>

\* the key-value table, the JSON files and the backend switches
storageVars == <<shop_kv, files, storage>>

\* the commerce documents and their bookkeeping
storeVars == <<products, orders, pending, nextCred, nextToken, origin, settledTokens>>

vars == <<products, orders, pending, now, nextCred, nextToken, origin, last,
          tasks, settledTokens, accountVars, storageVars>>

(* ---------------------------- bounds ----------------------------------- *)

MaxCred == 2
MaxOrders == 2
MaxTokens == 1
MaxTime == 1
MaxQty == 2

(* ---------------------------- vocabulary ------------------------------- *)

Blank == 0
ProductIds == {"P1", "P2"}
TierIds == {"T1", "T2"}
NoOrder == [id |-> ""]

RECURSIVE SumSeq(_)
SumSeq(s) == IF s = <<>> THEN 0 ELSE Head(s) + SumSeq(Tail(s))

Max(a, b) == IF a >= b THEN a ELSE b
Min(a, b) == IF a <= b THEN a ELSE b

\* a faulty abs that keeps the sign
Signed(a) == a

Abs(a) == IF a < 0 THEN 0 - a ELSE a

\* [str(item).strip() for item in xs if str(item).strip()]
NonBlank(xs) == SelectSeq(xs, LAMBDA x : x # Blank)

\* round(x, 2) on an amount in thousandths (amounts ending in 5 are not used)
Round2(m) == LET r == m % 10 IN IF r < 5 THEN m - r ELSE m - r + 10

\* a list comprehension, built when it is written
List(f) == f \o <<>>

\* a faulty inventory[n:] that removes nothing
DropNone(s, n) == s

\* a faulty inventory[:n] that takes from the tail
TakeLast(s, n) == SubSeq(s, Len(s) - Min(n, Len(s)) + 1, Len(s))

\* inventory[:n] and inventory[n:]
Take(s, n) == SubSeq(s, 1, Min(n, Len(s)))
Drop(s, n) == SubSeq(s, Min(n, Len(s)) + 1, Len(s))

(* ---------------------- product / inventory model ---------------------- *)

\* a faulty _normalize_tier that keeps the stock number it is given
KeepTierStock(tier) ==
    [id |-> tier.id, price |-> tier.price, stock |-> tier.stock,
     inventory |-> NonBlank(tier.inventory)]

_normalize_tier(tier) ==
    LET normalized_inventory == NonBlank(tier.inventory)
    IN [id |-> tier.id, price |-> tier.price,
        stock |-> Len(normalized_inventory),
        inventory |-> normalized_inventory]

_find_tier(product, tier_id) ==
    LET hits == {i \in 1..Len(product.tiers) : product.tiers[i].id = tier_id}
    IN IF hits = {} THEN 0 ELSE CHOOSE i \in hits : \A j \in hits : i <= j

_compute_product_stock(product) ==
    IF Len(product.tiers) > 0
    THEN SumSeq(List([i \in 1..Len(product.tiers) |->
                         Len(NonBlank(product.tiers[i].inventory))]))
    ELSE Len(NonBlank(product.inventory))

_normalize_product(product) ==
    LET normalized_tiers ==
            SelectSeq(List([i \in 1..Len(product.tiers) |->
                               _normalize_tier(product.tiers[i])]),
                      LAMBDA t : t.id # "")
        normalized_inventory == NonBlank(product.inventory)
    IN [id |-> product.id, price |-> product.price,
        stock |-> _compute_product_stock(
                      [tiers |-> normalized_tiers,
                       inventory |-> normalized_inventory]),
        inventory |-> normalized_inventory,
        tiers |-> normalized_tiers]

\* the stored document is normalised on every read
_load_products ==
    List([i \in 1..Len(products) |-> _normalize_product(products[i])])

FindProduct(ps, product_id) ==
    LET hits == {i \in 1..Len(ps) : ps[i].id = product_id}
    IN IF hits = {} THEN 0 ELSE CHOOSE i \in hits : \A j \in hits : i <= j

(* ------------------------- catalogue handlers -------------------------- *)
(* Each handler is an operator from the request to the response and the    *)
(* document it writes; the action further down stores the result.          *)

\* dict built from a list of tiers keyed by id: the last tier of an id wins
TierById(tiers, tier_id) ==
    LET hits == {i \in 1..Len(tiers) : tiers[i].id = tier_id}
    IN IF hits = {} THEN 0 ELSE CHOOSE i \in hits : \A j \in hits : i >= j

\* the body of the "for idx, existing" loop of shop_upsert_product
UpsertMerge(existing, product, normalized) ==
    LET inv == IF ~product.hasInventory
               THEN NonBlank(existing.inventory)
               ELSE normalized.inventory
        merged_tiers ==
            List([i \in 1..Len(normalized.tiers) |->
                LET tier == normalized.tiers[i]
                    raw_payload_tier == product.tiers[TierById(product.tiers, tier.id)]
                    ex == TierById(existing.tiers, tier.id)
                IN IF ex # 0 /\ ~raw_payload_tier.hasInventory
                   THEN _normalize_tier(
                            [tier EXCEPT !.inventory = NonBlank(existing.tiers[ex].inventory),
                                         !.stock = Len(NonBlank(existing.tiers[ex].inventory))])
                   ELSE _normalize_tier(tier)])
        tiers == IF ~product.hasTiers
                 THEN List([i \in 1..Len(existing.tiers) |->
                               _normalize_tier(existing.tiers[i])])
                 ELSE merged_tiers
        merged == [normalized EXCEPT !.inventory = inv, !.tiers = tiers]
    IN [merged EXCEPT !.stock = _compute_product_stock(merged)]

shop_upsert_product(product) ==
    LET normalized == _normalize_product(product)
        ps == _load_products
        idx == FindProduct(ps, normalized.id)
    IN IF normalized.id = ""
       THEN [status |-> 400, products |-> products, write |-> FALSE]
       ELSE IF idx # 0
       THEN [status |-> 200, write |-> TRUE,
             products |-> [ps EXCEPT ![idx] = UpsertMerge(ps[idx], product, normalized)]]
       ELSE [status |-> 200, write |-> TRUE, products |-> Append(ps, normalized)]

shop_delete_product(product_id) ==
    LET ps == _load_products
        filtered == SelectSeq(ps, LAMBDA p : p.id # product_id)
    IN IF Len(filtered) = Len(ps)
       THEN [status |-> 404, products |-> products, write |-> FALSE]
       ELSE [status |-> 200, products |-> filtered, write |-> TRUE]

\* a faulty extend that puts the new items in front
Prepend(inventory, items) == items \o inventory

\* list.extend(items)
Extend(inventory, items) == inventory \o items

shop_add_inventory(product_id, tier_id, raw_items) ==
    LET items == NonBlank(raw_items)
        ps == _load_products
        idx == FindProduct(ps, product_id)
        reject(code) == [status |-> code, products |-> products, write |-> FALSE, stock |-> 0]
    IN IF items = <<>> THEN reject(400)
       ELSE IF idx = 0 THEN reject(404)
       ELSE LET product == ps[idx] IN
            IF tier_id # ""
            THEN LET t == _find_tier(product, tier_id) IN
                 IF t = 0 THEN reject(404)
                 ELSE LET tier_inventory == Extend(NonBlank(product.tiers[t].inventory), items)
                          p1 == [product EXCEPT !.tiers[t].inventory = tier_inventory,
                                                !.tiers[t].stock = Len(tier_inventory)]
                          p2 == [p1 EXCEPT !.stock = _compute_product_stock(p1)]
                      IN [status |-> 200, write |-> TRUE, stock |-> Len(tier_inventory),
                          products |-> [ps EXCEPT ![idx] = _normalize_product(p2)]]
            ELSE LET existing == Extend(NonBlank(product.inventory), items)
                     p1 == [product EXCEPT !.inventory = existing, !.stock = Len(existing)]
                 IN [status |-> 200, write |-> TRUE, stock |-> Len(existing),
                     products |-> [ps EXCEPT ![idx] = _normalize_product(p1)]]

shop_update_stock(product_id, tier_id, delta) ==
    LET ps == _load_products
        idx == FindProduct(ps, product_id)
        reject(code) == [status |-> code, products |-> products, write |-> FALSE]
    IN IF idx = 0 THEN reject(404)
       ELSE LET product == ps[idx]
                has_tiers == Len(product.tiers) > 0
            IN
            IF has_tiers /\ tier_id = "" THEN reject(400)
            ELSE IF tier_id # ""
            THEN LET t == _find_tier(product, tier_id) IN
                 IF t = 0 THEN reject(404)
                 ELSE IF delta > 0 THEN reject(400)
                 ELSE LET inventory == NonBlank(product.tiers[t].inventory)
                          remove_count == Min(Abs(delta), Len(inventory))
                          p1 == IF delta < 0 /\ inventory # <<>>
                                THEN [product EXCEPT
                                        !.tiers[t].inventory = Take(inventory, Len(inventory) - remove_count),
                                        !.tiers[t].stock = Len(inventory) - remove_count]
                                ELSE [product EXCEPT
                                        !.tiers[t].stock = Max(0, product.tiers[t].stock + delta)]
                          p2 == [p1 EXCEPT !.stock = _compute_product_stock(p1)]
                      IN [status |-> 200, write |-> TRUE,
                          products |-> [ps EXCEPT ![idx] = _normalize_product(p2)]]
            ELSE IF delta > 0 THEN reject(400)
            ELSE LET current_stock == product.stock
                     inventory == NonBlank(product.inventory)
                     remove_count == Min(Abs(delta), Len(inventory))
                     p1 == IF delta < 0 /\ inventory # <<>>
                           THEN [product EXCEPT
                                   !.inventory = Take(inventory, Len(inventory) - remove_count),
                                   !.stock = Len(inventory) - remove_count]
                           ELSE [product EXCEPT !.stock = Max(0, current_stock + delta)]
                 IN [status |-> 200, write |-> TRUE,
                     products |-> [ps EXCEPT ![idx] = _normalize_product(p1)]]

(* --------------------------- purchase pipeline ------------------------- *)

\* line_id = str(raw_item.get("id")) or "productId::tierId" or "productId"
LineKey(raw_id, item_id, tier_id) ==
    IF raw_id # "" THEN <<raw_id, "">> ELSE <<item_id, tier_id>>

PrepareError(code) == [status |-> code, items |-> <<>>, total |-> 0]

\* a faulty unit price that trusts the price field of the request
ClientPrice(raw_item, product, t) == raw_item.price

\* unit_price of _prepare_order_items: the tier's price when the line names
\* a tier (t is its index), the product's otherwise
UnitPrice(raw_item, product, t) ==
    IF raw_item.tierId # "" THEN product.tiers[t].price ELSE product.price

\* the "for raw_item in raw_items" loop of _prepare_order_items
RECURSIVE PrepareFrom(_, _, _, _, _)
PrepareFrom(ps, raw_items, i, normalized_items, computed_total) ==
    IF i > Len(raw_items)
    THEN [status |-> 0, items |-> normalized_items, total |-> Round2(computed_total)]
    ELSE LET raw_item == raw_items[i]
             item_id == raw_item.productId
             tier_id == raw_item.tierId
             quantity == raw_item.quantity
             idx == FindProduct(ps, item_id)
         IN IF item_id = "" \/ quantity <= 0 THEN PrepareError(400)
            ELSE IF idx = 0 THEN PrepareError(404)
            ELSE LET product == ps[idx]
                     t == IF tier_id # "" THEN _find_tier(product, tier_id) ELSE 0
                 IN IF tier_id # "" /\ t = 0 THEN PrepareError(404)
                    ELSE LET unit_price == UnitPrice(raw_item, product, t)
                         IN IF unit_price <= 0 THEN PrepareError(400)
                            ELSE PrepareFrom(ps, raw_items, i + 1,
                                    Append(normalized_items,
                                        [id |-> LineKey(raw_item.id, item_id, tier_id),
                                         productId |-> item_id,
                                         tierId |-> tier_id,
                                         quantity |-> quantity,
                                         price |-> Round2(unit_price)]),
                                    computed_total + unit_price * quantity)

_prepare_order_items(ps, raw_items) ==
    IF raw_items = <<>> THEN PrepareError(400)
    ELSE PrepareFrom(ps, raw_items, 1, <<>>, 0)

\* a faulty same_owner that recognises no owner
NeverOwner(existing_order, user_data) == FALSE

\* a faulty owner test that takes every user for the owner
AnyOwner(existing_order, user_data) == TRUE

\* same_owner of _process_purchase
same_owner(existing_order, user_data) ==
    \/ (user_data.id # "" /\ existing_order.userId = user_data.id)
    \/ (user_data.email # "" /\ existing_order.user.email = user_data.email)

\* index of the first order carrying order_id, 0 when there is none
ExistingOrder(existing_orders, order_id) ==
    LET hits == {i \in 1..Len(existing_orders) : existing_orders[i].id = order_id}
    IN IF order_id = "" \/ hits = {} THEN 0
       ELSE CHOOSE i \in hits : \A j \in hits : i <= j

CheckOk == [status |-> 0, productId |-> "", tierId |-> ""]

\* a faulty stock check that finds every list long enough
NeverShort(inventory, quantity) == FALSE

\* len(inventory) < quantity
Short(inventory, quantity) == Len(inventory) < quantity

\* the body of the first "for item in items" loop of _process_purchase
CheckLine(ps, item) ==
    LET idx == FindProduct(ps, item.productId)
    IN IF item.productId = "" \/ item.quantity <= 0
       THEN [status |-> 400, productId |-> "", tierId |-> ""]
       ELSE IF idx = 0
       THEN [status |-> 404, productId |-> "", tierId |-> ""]
       ELSE LET product == ps[idx] IN
            IF item.tierId # ""
            THEN LET t == _find_tier(product, item.tierId) IN
                 IF t = 0
                 THEN [status |-> 404, productId |-> "", tierId |-> ""]
                 ELSE IF Short(NonBlank(product.tiers[t].inventory), item.quantity)
                 THEN [status |-> 409, productId |-> item.productId,
                       tierId |-> item.tierId]
                 ELSE CheckOk
            ELSE IF Short(NonBlank(product.inventory), item.quantity)
                 THEN [status |-> 409, productId |-> item.productId, tierId |-> ""]
                 ELSE CheckOk

\* a faulty check loop that stops after the first line
CheckFirstLine(ps, items, i) == CheckLine(ps, items[1])

\* the first "for item in items" loop of _process_purchase: every line is
\* checked before any line is allocated
RECURSIVE CheckFrom(_, _, _)
CheckFrom(ps, items, i) ==
    IF i > Len(items) THEN CheckOk
    ELSE LET check == CheckLine(ps, items[i])
         IN IF check.status # 0 THEN check ELSE CheckFrom(ps, items, i + 1)

\* credentials[credential_key] = "\n".join(delivered)
PutCredential(credentials, key, delivered) ==
    [k \in (DOMAIN credentials) \cup {key} |->
        IF k = key THEN delivered ELSE credentials[k]]

NoCredentials == [k \in {} |-> <<>>]

\* the second "for item in items" loop of _process_purchase: the allocation
RECURSIVE AllocateFrom(_, _, _, _)
AllocateFrom(ps, items, i, credentials) ==
    IF i > Len(items) THEN [products |-> ps, credentials |-> credentials]
    ELSE LET item == items[i]
             idx == FindProduct(ps, item.productId)
             product == ps[idx]
         IN IF item.tierId # ""
            THEN LET t == _find_tier(product, item.tierId)
                     inventory == NonBlank(product.tiers[t].inventory)
                     delivered == Take(inventory, item.quantity)
                     remaining == Drop(inventory, item.quantity)
                     p1 == [product EXCEPT !.tiers[t].inventory = remaining,
                                           !.tiers[t].stock = Len(remaining)]
                     p2 == [p1 EXCEPT !.stock = _compute_product_stock(p1)]
                 IN AllocateFrom([ps EXCEPT ![idx] = p2], items, i + 1,
                                 PutCredential(credentials, item.id, delivered))
            ELSE LET inventory == NonBlank(product.inventory)
                     delivered == Take(inventory, item.quantity)
                     remaining == Drop(inventory, item.quantity)
                     p1 == [product EXCEPT !.inventory = remaining,
                                           !.stock = Len(remaining)]
                 IN AllocateFrom([ps EXCEPT ![idx] = p1], items, i + 1,
                                 PutCredential(credentials, item.id, delivered))

\* f"ord-{int(datetime.now(timezone.utc).timestamp())}"
GeneratedOrderId(t) == "ord-" \o ToString(t)

OrderTotal(items) ==
    Round2(SumSeq(List([i \in 1..Len(items) |->
                           items[i].price * Max(1, items[i].quantity)])))

\* _process_purchase on the documents it has loaded (ps, existing_orders) at
\* clock t; products/orders are the documents it saves when write is TRUE
_process_purchase(ps, existing_orders, order_data, user_data, payment_method, t) ==
    LET items == order_data.items
        reject(code, pid, tid) ==
            [status |-> code, order |-> NoOrder, productId |-> pid, tierId |-> tid,
             write |-> FALSE, products |-> ps, orders |-> existing_orders]
        ex == ExistingOrder(existing_orders, order_data.id)
    IN IF items = <<>> THEN reject(400, "", "")
       ELSE IF ex # 0
       THEN IF same_owner(existing_orders[ex], user_data)
            THEN [status |-> 200, order |-> existing_orders[ex],
                  productId |-> "", tierId |-> "",
                  write |-> FALSE, products |-> ps, orders |-> existing_orders]
            ELSE reject(409, "", "")
       ELSE LET check == CheckFrom(ps, items, 1) IN
            IF check.status # 0
            THEN reject(check.status, check.productId, check.tierId)
            ELSE LET alloc == AllocateFrom(ps, items, 1, NoCredentials)
                     normalized_products ==
                         List([i \in 1..Len(alloc.products) |->
                                  _normalize_product(alloc.products[i])])
                     order_record ==
                         [id |-> IF order_data.id # "" THEN order_data.id
                                 ELSE GeneratedOrderId(t),
                          userId |-> IF user_data.id # "" THEN user_data.id
                                     ELSE IF user_data.email # "" THEN user_data.email
                                     ELSE "guest",
                          paymentMethod |-> payment_method,
                          user |-> [id |-> user_data.id, email |-> user_data.email],
                          items |-> items,
                          total |-> OrderTotal(items),
                          status |-> "completed",
                          credentials |-> alloc.credentials]
                 IN [status |-> 200, order |-> order_record,
                     productId |-> "", tierId |-> "", write |-> TRUE,
                     products |-> normalized_products,
                     orders |-> Append(existing_orders, order_record)]

\* a faulty card gate that lets every request through
NoCardGate(payment_method, payment_verified) == FALSE

\* shop_buy: payment_method == "card" and not payment_verified
CardGate(payment_method, payment_verified) ==
    payment_method = "card" /\ ~payment_verified

\* shop_buy up to its response: prepare, the card gate, then the pipeline
shop_buy(req, t) ==
    LET prepared == _prepare_order_items(_load_products, req.order.items)
        order_payload == [id |-> req.order.id, items |-> prepared.items,
                          total |-> prepared.total]
        reject(code) ==
            [status |-> code, order |-> NoOrder, productId |-> "", tierId |-> "",
             write |-> FALSE, products |-> products, orders |-> orders]
    IN IF prepared.status # 0 THEN reject(prepared.status)
       ELSE IF CardGate(req.paymentMethod, req.paymentVerified) THEN reject(402)
       ELSE _process_purchase(_load_products, orders, order_payload, req.user,
                              req.paymentMethod, t)

(* ----------------------------- notifications -------------------------- *)

\* a faulty notification step that fails the request when the e-mail raises
FailOnNotify(purchase, mail, log) ==
    IF purchase.write /\ mail = "raised"
    THEN [purchase EXCEPT !.status = 500, !.order = NoOrder, !.write = FALSE]
    ELSE purchase

\* what a request that recorded an order answers after _send_purchase_email
\* (mail: "sent", "failed" or "raised") and _send_order_log (log: "sent" or
\* "failed"): the exception of the e-mail is caught and logged, the order log
\* catches its own, and neither result is looked at
Notify(purchase, mail, log) == purchase

(* ----------------------------- order status --------------------------- *)

OrderStatuses == {"pending", "completed", "refunded", "cancelled"}

\* shop_update_order_status: the first order carrying order_id gets status
shop_update_order_status(order_id, status) ==
    LET target == ExistingOrder(orders, order_id)
        reject(code) == [status |-> code, orders |-> orders, write |-> FALSE]
    IN IF order_id = "" THEN reject(400)
       ELSE IF status \notin OrderStatuses THEN reject(400)
       ELSE IF target = 0 THEN reject(404)
       ELSE [status |-> 200, write |-> TRUE,
             orders |-> [orders EXCEPT ![target].status = status]]

(* --------------------------- payment gateways -------------------------- *)

\* every gateway has its credentials configured and its toggle on
stripe_secret_key == TRUE
paypal_automated == TRUE
oxapay_merchant_api_key == TRUE
GatewayMethods == {"card", "paypal", "crypto"}

_compute_payment_methods ==
    [m \in GatewayMethods |->
        [enabled |-> IF m = "card" THEN stripe_secret_key
                     ELSE IF m = "paypal" THEN paypal_automated
                     ELSE oxapay_merchant_api_key]]

\* shop_create_payment; gw is what the gateway answers to the create call
shop_create_payment(req, gw, pending_token) ==
    LET payment_method == IF req.paymentMethod = "" THEN "card" ELSE req.paymentMethod
        prepared == _prepare_order_items(_load_products, req.order.items)
        order_payload == [id |-> req.order.id, items |-> prepared.items,
                          total |-> prepared.total]
        entry == [order |-> order_payload, user |-> req.user,
                  paymentMethod |-> payment_method, completed |-> FALSE]
        stored == [k \in (DOMAIN pending) \cup {pending_token} |->
                      IF k = pending_token THEN entry ELSE pending[k]]
        reject(code) == [status |-> code, pending |-> pending, write |-> FALSE]
    IN IF prepared.status # 0 THEN reject(prepared.status)
       ELSE IF prepared.total <= 0 THEN reject(400)
       ELSE IF payment_method \in GatewayMethods
               /\ ~_compute_payment_methods[payment_method].enabled
       THEN reject(400)
       ELSE IF payment_method \in {"paypal", "crypto"}
       THEN \* the entry is saved after the gateway has answered
            IF gw # "ok" THEN reject(502)
            ELSE [status |-> 200, pending |-> stored, write |-> TRUE]
       ELSE IF ~stripe_secret_key THEN reject(503)
       ELSE \* card: the entry is saved before the checkout session is created
            [status |-> IF gw = "ok" THEN 200 ELSE 502,
             pending |-> stored, write |-> TRUE]

\* a faulty settlement test that takes every answer of the gateway for paid
AlwaysSettled(gw) == TRUE

\* the gateway reports settlement: card payment_status is paid, PayPal
\* capture status is COMPLETED, OxaPay status is paid/completed/confirmed
Settled(gw) == gw = "paid"

\* shop_confirm_payment up to the call of _process_purchase:
\* 0 when the pipeline is to run, the status of the early return otherwise.
\* gw is the settlement the gateway reports, meta the token in the card
\* session's metadata (0 when the session carries none)
ConfirmGate(req, gw, meta) ==
    IF req.token \notin DOMAIN pending THEN 404
    ELSE LET pending_entry == pending[req.token]
             stored_method == pending_entry.paymentMethod
         IN IF pending_entry.completed THEN 409
            ELSE IF pending_entry.user.id # req.user.id
                    \/ pending_entry.user.email # req.user.email THEN 403
            ELSE IF req.paymentMethod # "" /\ req.paymentMethod # stored_method THEN 409
            ELSE IF gw = "error" THEN 502
            ELSE IF ~Settled(gw) THEN 402
            ELSE IF stored_method \notin {"paypal", "crypto"}
                    /\ meta # 0 /\ meta # req.token THEN 409
            ELSE 0

shop_confirm_payment(req, gw, meta, t) ==
    LET gate == ConfirmGate(req, gw, meta)
        reject(code) ==
            [status |-> code, order |-> NoOrder, productId |-> "", tierId |-> "",
             write |-> FALSE, products |-> products, orders |-> orders,
             pending |-> pending, settled |-> FALSE]
    IN IF gate # 0 THEN reject(gate)
       ELSE LET pending_entry == pending[req.token]
                purchase == _process_purchase(_load_products, orders,
                                pending_entry.order, pending_entry.user,
                                pending_entry.paymentMethod, t)
            IN IF purchase.status # 200
               THEN purchase @@ [pending |-> pending, settled |-> TRUE]
               ELSE purchase @@
                    [pending |-> [pending EXCEPT ![req.token].completed = TRUE],
                     settled |-> TRUE]

(* ------------------------------ requests ------------------------------- *)

Forged == 7
Quantities == 1..MaxQty
u1 == [id |-> "u1", email |-> "a@x"]
u2 == [id |-> "u2", email |-> "b@x"]

Line(product_id, tier_id, quantity) ==
    [id |-> "", productId |-> product_id, tierId |-> tier_id,
     quantity |-> quantity, price |-> Forged]

BuyRequest(user, order_id, items, payment_method, payment_verified) ==
    [user |-> user, order |-> [id |-> order_id, items |-> items, total |-> Forged],
     paymentMethod |-> payment_method, paymentVerified |-> payment_verified]

\* one-line carts on the product P1 and on the tier P2::T1
OneLineCarts ==
    {<<Line(l[1], l[2], q)>> : l \in {<<"P1", "">>, <<"P2", "T1">>}, q \in Quantities}

\* two-line carts: a line of P2::T1 behind or before a line of P1, a line of
\* an unknown product or tier behind a line of P1
TwoLineCarts ==
    {<<Line("P1", "", 1), Line("P2", "T1", q)>> : q \in Quantities}
    \cup {<<Line("P2", "T1", MaxQty), Line("P1", "", 1)>>,
          <<Line("P1", "", 1), Line("P9", "", 1)>>,
          <<Line("P1", "", 1), Line("P2", "T9", 1)>>}
\* an unknown product, a line without quantity, a tier that has no price
OddCarts ==
    {<<Line("P9", "", 1)>>, <<Line("P1", "", 0)>>, <<Line("P2", "T2", 1)>>}

CoreBuyRequests ==
    {BuyRequest(u1, o, c, "", FALSE) :
        o \in {"", "o1"},
        c \in {<<Line("P1", "", 1)>>, <<Line("P1", "", MaxQty)>>,
               <<Line("P2", "T1", 1)>>}}
    \cup {BuyRequest(u1, "o1", <<Line("P1", "", 1)>>, "card", TRUE)}

BuyRequests ==
    {BuyRequest(uo[1], uo[2], c, pm[1], pm[2]) :
        uo \in ({u1, u2} \X {"o1"}) \cup {<<u1, "">>},
        c \in OneLineCarts \cup TwoLineCarts \cup OddCarts,
        pm \in {<<"", FALSE>>, <<"card", FALSE>>}}

CreateRequest(user, order_id, payment_method) ==
    [user |-> user,
     order |-> [id |-> order_id, items |-> <<Line("P1", "", 1)>>, total |-> Forged],
     paymentMethod |-> payment_method]

CoreCreateRequests == {CreateRequest(u1, "", "")}

CoreConfirmRequests == [user : {u1}, token : 1..MaxTokens, paymentMethod : {""}]

\* confirm requests by the payer and by another user, for a stored and for
\* an unknown token, with and without a payment method
ConfirmRequests ==
    [user : {u1, u2}, token : 1..(MaxTokens + 1), paymentMethod : {"", "card", "paypal"}]

\* what the gateway answers to a confirm: <<settlement, metadata token>>;
\* MaxTokens + 1 is the token of no entry
CoreGatewayAnswers == {<<"unpaid", 0>>, <<"paid", 0>>}
GatewayAnswers ==
    {<<"error", 0>>, <<"unpaid", 0>>, <<"paid", 0>>}
    \cup {<<"paid", m>> : m \in 1..(MaxTokens + 1)}

\* the strings of one stocking request, the first fresh string being c
StockPayloads(c) ==
    {<<c>>, <<Blank>>}
    \cup (IF c + 1 <= MaxCred THEN {<<c, Blank, c + 1>>} ELSE {})

Fresh(xs) == Len(NonBlank(xs))

TierPayload(tier_id, hasInv, inv) ==
    [id |-> tier_id, price |-> 1004, stock |-> 5,
     hasInventory |-> hasInv, inventory |-> inv]

\* the product payloads of an upsert, the first fresh string being c
UpsertPayloads(c) ==
    {[id |-> pid, price |-> 3000, stock |-> 5,
      hasInventory |-> k[1], inventory |-> k[2],
      hasTiers |-> k[3], tiers |-> k[4]] :
        pid \in {"P2"},
        k \in {<<TRUE, <<c>>, FALSE, <<>> >>,
               <<FALSE, <<>>, TRUE, <<TierPayload("T1", TRUE, <<c>>)>> >>}}
    \cup {[id |-> "", price |-> 1004, stock |-> 5, hasInventory |-> FALSE,
           inventory |-> <<>>, hasTiers |-> FALSE, tiers |-> <<>>]}

PayloadFresh(product) ==
    Len(product.inventory)
    + SumSeq(List([i \in 1..Len(product.tiers) |->
                       Len(product.tiers[i].inventory)]))

\* the places a stocking or adjusting request names
CoreTargets == {<<"P1", "">>, <<"P2", "T1">>}
Targets == ProductIds \X ({""} \cup TierIds)
Deltas == (0 - MaxQty)..1

\* the same with a product and a tier the catalogue does not hold
CatTargets == Targets \cup {<<"P9", "">>, <<"P2", "T9">>}

\* upserts of an existing product: a change of price only, a tiers array
\* that lists T1 without inventory, and arrays that carry inventory
CatUpsertPayloads(c) ==
    {[id |-> pid, price |-> 2500, stock |-> 5,
      hasInventory |-> k[1], inventory |-> k[2],
      hasTiers |-> k[3], tiers |-> k[4]] :
        pid \in ProductIds,
        k \in {<<FALSE, <<>>, FALSE, <<>> >>,
               <<TRUE, <<c>>, FALSE, <<>> >>,
               <<FALSE, <<>>, TRUE, <<TierPayload("T1", FALSE, <<>>)>> >>,
               <<FALSE, <<>>, TRUE, <<TierPayload("T1", TRUE, <<c>>)>> >>}}

(* ----------------------- accounts and sessions -------------------------- *)
(* A text is a sequence of characters.  The characters of a session token  *)
(* that the model tells apart are the fields of its payload, the dot, the  *)
(* blank, a byte above 127 and the characters a client can write instead.  *)
(* HMAC-SHA256 is taken as free of collisions: the signature of a text     *)
(* under a key is the pair of both.  Times are seconds of the wall clock.  *)

MaxClock == 3
MaxUsers == 3
MaxOtps == 2

admin_email == "admin@x"
admin_password == "root"
auth_session_secret == "k0"
auth_session_ttl_seconds == 2
login_otp_ttl_seconds == 3
login_otp_max_attempts == 2
login_otp_min_interval_seconds == 2

\* str.lower() and str.strip() on the strings the requests carry
Lower(s) ==
    CASE s = "A@X" -> "a@x"
      [] s = "ADMIN@X" -> "admin@x"
      [] s = "Admin" -> "admin"
      [] OTHER -> s

Strip(s) == IF s = " " THEN "" ELSE s

\* str(n) of a non-negative integer and _to_int(value, default=0) or 0
Digits == <<"0", "1", "2", "3", "4", "5", "6", "7", "8", "9", "10", "11", "12">>
Str(n) == Digits[n + 1]
_to_int(value) ==
    IF \E n \in 0..(Len(Digits) - 1) : Str(n) = value
    THEN CHOOSE n \in 0..(Len(Digits) - 1) : Str(n) = value
    ELSE 0

\* a password is <<>> when blank, else <<"raw", p>> or <<"pbkdf2_sha256", p>>:
\* the salt and the iteration count of a hash are not told apart
_is_password_hash(value) == value # <<>> /\ value[1] = "pbkdf2_sha256"
_hash_password(password) == <<"pbkdf2_sha256", password>>
_verify_password(password, stored) == stored # <<>> /\ stored[2] = password

\* f"user-{ms}" for the clock reading t
GeneratedUserId(t) == <<"user-0", "user-1", "user-2", "user-3", "user-4", "user-5">>[t + 1]

DefaultAdmin ==
    [id |-> "admin-1337", email |-> admin_email,
     password |-> _hash_password(admin_password), role |-> "admin", discordId |-> ""]

\* one row of _ensure_default_admin_user; ADMIN_PASSWORD is configured
NormalizedUser(user, t) ==
    LET email == Lower(Strip(user.email))
        role == Lower(Strip(IF user.role = "" THEN "user" ELSE user.role))
        raw_password == user.password
        normalized_password ==
            IF raw_password # <<>> /\ ~_is_password_hash(raw_password)
            THEN _hash_password(raw_password[2])
            ELSE raw_password
    IN  IF email = admin_email
        THEN [id |-> IF user.id = "" THEN "admin-1337" ELSE user.id,
              email |-> email,
              password |-> IF _is_password_hash(raw_password)
                              /\ _verify_password(admin_password, raw_password)
                           THEN raw_password
                           ELSE _hash_password(admin_password),
              role |-> "admin",
              discordId |-> Strip(user.discordId)]
        ELSE [id |-> IF user.id = "" THEN GeneratedUserId(t) ELSE user.id,
              email |-> email,
              password |-> normalized_password,
              role |-> IF role = "admin" THEN "admin" ELSE "user",
              discordId |-> Strip(user.discordId)]

\* a faulty _ensure_default_admin_user that trusts the list it is given
TrustList(rows, t) == rows

_ensure_default_admin_user(rows, t) ==
    LET kept == SelectSeq(rows, LAMBDA user : Lower(Strip(user.email)) # "")
        normalized == [i \in 1..Len(kept) |-> NormalizedUser(kept[i], t)]
    IN  IF \E i \in 1..Len(normalized) : normalized[i].email = admin_email
        THEN List(normalized)
        ELSE <<DefaultAdmin>> \o normalized

\* _load_state("users"): the stored list repaired, and saved when it differed
_load_state_users(t) == _ensure_default_admin_user(users, t)

(* session tokens *)

Dot == "."
Pad == " "
HighByte == "0x80"

RECURSIVE LStrip(_)
LStrip(text) == IF text # <<>> /\ Head(text) = Pad THEN LStrip(Tail(text)) ELSE text

RECURSIVE RStrip(_)
RStrip(text) ==
    IF text # <<>> /\ text[Len(text)] = Pad
    THEN RStrip(SubSeq(text, 1, Len(text) - 1))
    ELSE text

StripText(text) == RStrip(LStrip(text))

\* the index of the first dot of a text, 0 when it has none
FirstDot(text) ==
    IF \E i \in 1..Len(text) : text[i] = Dot
    THEN CHOOSE i \in 1..Len(text) :
            text[i] = Dot /\ \A j \in 1..(i - 1) : text[j] # Dot
    ELSE 0

\* _b64url_encode(json.dumps(payload, sort_keys=True)) and its inverse
BadJson == [email |-> "", exp |-> "", iat |-> "", role |-> "", uid |-> ""]

EncodePayload(payload) ==
    <<payload.email, Str(payload.exp), Str(payload.iat), payload.role, payload.uid>>

DecodePayload(payload_b64) ==
    IF Len(payload_b64) = 5
    THEN [email |-> payload_b64[1], exp |-> payload_b64[2], iat |-> payload_b64[3],
          role |-> payload_b64[4], uid |-> payload_b64[5]]
    ELSE BadJson

Hmac(key, text) == <<key>> \o text

_sign_session_payload(payload_b64) == Hmac(auth_session_secret, payload_b64)

_issue_shop_session_token(user, t) ==
    LET payload == [uid |-> Strip(user.id),
                    email |-> Lower(Strip(user.email)),
                    role |-> IF Lower(Strip(user.role)) = "admin" THEN "admin" ELSE "user",
                    iat |-> t,
                    exp |-> t + auth_session_ttl_seconds]
        payload_b64 == EncodePayload(payload)
    IN  payload_b64 \o <<Dot>> \o _sign_session_payload(payload_b64)

\* what _parse_shop_session_token gives: a user, None, or an exception
NoUser == [kind |-> "none", id |-> "", email |-> "", role |-> ""]
Raised == [kind |-> "raise", id |-> "", email |-> "", role |-> ""]

HasHighByte(text) == \E i \in 1..Len(text) : text[i] = HighByte

\* signature and hmac.compare_digest(signature, expected_signature)
Verified(payload_b64, signature) ==
    signature # <<>> /\ signature = _sign_session_payload(payload_b64)

\* a faulty expiry test that accepts a token in the second it expires
ExpiredLate(exp, t) == exp < t

Expired(exp, t) == exp <= t

_parse_shop_session_token(token, t) ==
    LET raw_token == StripText(token)
        dot == FirstDot(raw_token)
        payload_b64 == SubSeq(raw_token, 1, dot - 1)
        signature == SubSeq(raw_token, dot + 1, Len(raw_token))
        payload == DecodePayload(payload_b64)
        uid == Strip(payload.uid)
        email == Lower(Strip(payload.email))
        role == IF Lower(Strip(payload.role)) = "admin" THEN "admin" ELSE "user"
        exp == _to_int(payload.exp)
    IN  IF dot = 0 THEN NoUser
        ELSE IF HasHighByte(payload_b64) THEN Raised
        ELSE IF signature # <<>> /\ HasHighByte(signature) THEN Raised
        ELSE IF ~Verified(payload_b64, signature) THEN NoUser
        ELSE IF payload = BadJson THEN NoUser
        ELSE IF uid = "" \/ email = "" \/ Expired(exp, t) THEN NoUser
        ELSE [kind |-> "user", id |-> uid, email |-> email, role |-> role]

\* _parse_shop_session_from_request: no bearer token, no user
NoToken == <<>>
_parse_shop_session_from_request(token, t) ==
    IF StripText(token) = <<>> THEN NoUser ELSE _parse_shop_session_token(token, t)

(* the account handlers *)

Emails == {admin_email, "a@x", "b@x"}
Never == 0 - 1
Codes == {"111111", "222222"}

NoRow == [id |-> "", email |-> "", password |-> <<>>, role |-> "", discordId |-> ""]

\* what a handler answers and what it leaves in the users document and in
\* the two dictionaries of one-time codes; created is the code it made,
\* counted the otpToken it counted a wrong code for
Answer(status) ==
    [status |-> status, loaded |-> FALSE, users |-> users,
     sessions |-> login_otp_sessions, lastSent |-> login_otp_last_sent_at,
     requires2fa |-> FALSE, otpToken |-> 0, sessionToken |-> NoToken,
     user |-> NoRow, created |-> <<>>, counted |-> 0]

\* the answer of a handler that has read the users document
Loaded(status, rows) == [Answer(status) EXCEPT !.loaded = TRUE, !.users = rows]

\* the answer that carries a session token for a row of the users document
SignedIn(rows, user, t) ==
    [Loaded(200, rows) EXCEPT !.sessionToken = _issue_shop_session_token(user, t),
                              !.user = user]

_purge_expired_login_otps(sessions, t) ==
    [k \in {k \in DOMAIN sessions : sessions[k].expiresAt > t} |-> sessions[k]]

Pop(sessions, otp_token) == [k \in DOMAIN sessions \ {otp_token} |-> sessions[k]]

\* the first row with this e-mail whose password verifies, 0 when none does
FirstVerified(rows, email, password) ==
    LET hits == {i \in 1..Len(rows) :
                    rows[i].email = email /\ _verify_password(password, rows[i].password)}
    IN  IF hits = {} THEN 0 ELSE CHOOSE i \in hits : \A j \in hits : i <= j

FirstWithEmail(rows, email) ==
    LET hits == {i \in 1..Len(rows) : rows[i].email = email}
    IN  IF hits = {} THEN 0 ELSE CHOOSE i \in hits : \A j \in hits : i <= j

TooSoon(last_sent_at, t) ==
    /\ login_otp_min_interval_seconds > 0
    /\ last_sent_at # Never
    /\ t - last_sent_at < login_otp_min_interval_seconds

OtpEntry(email, otp_code, t) ==
    [email |-> email, code |-> otp_code, expiresAt |-> t + login_otp_ttl_seconds,
     attempts |-> 0]

\* a faulty login that skips the second factor
Never2fa == FALSE

_is_login_2fa_ready == login_2fa_ready

\* shop_auth_login up to the awaited e-mail: status 0 tells that the request
\* now waits for _send_login_otp_email; otp_token and otp_code are the random
\* strings drawn
LoginCheck(req, t, otp_token, otp_code) ==
    LET email == Lower(Strip(req.email))
        password == Strip(req.password)
        rows == _load_state_users(t)
        i == FirstVerified(rows, email, password)
        entered == login_otp_sessions @@ (otp_token :> OtpEntry(email, otp_code, t))
    IN  IF email = "" \/ password = "" THEN Answer(400)
        ELSE IF i = 0 THEN Loaded(401, rows)
        ELSE IF ~_is_login_2fa_ready THEN SignedIn(rows, rows[i], t)
        ELSE IF TooSoon(login_otp_last_sent_at[email], t) THEN Loaded(429, rows)
        ELSE [Loaded(0, rows) EXCEPT
                !.sessions = _purge_expired_login_otps(entered, t),
                !.otpToken = otp_token,
                !.created = <<otp_token, email, otp_code, FALSE>>]

\* shop_auth_login from the return of the e-mail on: r is what LoginCheck left,
\* sessions and last_sent the two dictionaries as they are by now
LoginResume(r, sessions, last_sent, sent_ok, t) ==
    IF ~sent_ok
    THEN [r EXCEPT !.status = 502, !.otpToken = 0,
                   !.sessions = Pop(sessions, r.otpToken),
                   !.lastSent = last_sent]
    ELSE [r EXCEPT !.status = 200, !.requires2fa = TRUE,
                   !.sessions = sessions,
                   !.lastSent = [last_sent EXCEPT ![r.created[2]] = t],
                   !.created = [r.created EXCEPT ![4] = TRUE]]

\* the whole handler when nothing else runs while the e-mail is awaited
shop_auth_login(req, t, otp_token, otp_code, sent_ok) ==
    LET r == LoginCheck(req, t, otp_token, otp_code) IN
    IF r.status # 0 THEN r ELSE LoginResume(r, r.sessions, r.lastSent, sent_ok, t)

\* a faulty attempt counter that never gives up on a token
NeverExhausted(attempts) == FALSE

Exhausted(attempts) == attempts >= login_otp_max_attempts

shop_auth_verify_otp(req, t) ==
    LET purged == _purge_expired_login_otps(login_otp_sessions, t)
        entry == purged[req.otpToken]
        attempts == entry.attempts + 1
        rows == _load_state_users(t)
        i == FirstWithEmail(rows, entry.email)
    IN  IF req.otpToken = 0 \/ req.code = "" THEN Answer(400)
        ELSE IF req.otpToken \notin DOMAIN purged
             THEN [Answer(401) EXCEPT !.sessions = purged]
        ELSE IF req.code # entry.code
             THEN [Answer(401) EXCEPT
                     !.counted = req.otpToken,
                     !.sessions = IF Exhausted(attempts)
                                  THEN Pop(purged, req.otpToken)
                                  ELSE [purged EXCEPT ![req.otpToken].attempts = attempts]]
        ELSE IF i = 0
             THEN [Loaded(404, rows) EXCEPT !.sessions = Pop(purged, req.otpToken)]
        ELSE [SignedIn(rows, rows[i], t) EXCEPT !.sessions = Pop(purged, req.otpToken)]

shop_auth_register(req, t) ==
    LET email == Lower(Strip(req.email))
        password == Strip(req.password)
        rows == _load_state_users(t)
        user == [id |-> GeneratedUserId(t), email |-> email,
                 password |-> _hash_password(password), role |-> "user",
                 discordId |-> ""]
    IN  IF email = "" \/ password = "" THEN Answer(400)
        ELSE IF \E i \in 1..Len(rows) : rows[i].email = email THEN Loaded(409, rows)
        ELSE SignedIn(_ensure_default_admin_user(Append(rows, user), t), user, t)

\* PUT /shop/state/users with a list: shop_set_state and _save_state both repair it
shop_set_state_users(state_value, t) ==
    Loaded(200, _ensure_default_admin_user(_ensure_default_admin_user(state_value, t), t))

\* the row the session names, by id and e-mail, 0 when there is none
FirstIdentity(rows, user_id, email) ==
    LET hits == {i \in 1..Len(rows) :
                    Strip(rows[i].id) = user_id /\ rows[i].email = email}
    IN  IF hits = {} THEN 0 ELSE CHOOSE i \in hits : \A j \in hits : i <= j

\* the Discord callback of a link token issued to <<user_id, email>>
shop_auth_discord_callback(user_id, email, discord_id, t) ==
    LET rows == _load_state_users(t)
        i == FirstIdentity(rows, user_id, email)
    IN  IF i = 0 THEN Loaded(302, rows)
        ELSE IF \E j \in 1..Len(rows) : j # i /\ rows[j].discordId = discord_id
             THEN Loaded(302, rows)
        ELSE Loaded(302, _ensure_default_admin_user(
                            [rows EXCEPT ![i].discordId = discord_id], t))

shop_auth_discord_unlink(auth_user, t) ==
    LET rows == _load_state_users(t)
        i == FirstIdentity(rows, auth_user.id, auth_user.email)
    IN  IF auth_user.id = "" \/ auth_user.email = "" THEN Answer(401)
        ELSE IF i = 0 THEN Loaded(404, rows)
        ELSE Loaded(200, _ensure_default_admin_user([rows EXCEPT ![i].discordId = ""], t))

(* the routes and the middleware in front of them *)
(* A path is the sequence of its segments; "x" stands for a path variable. *)

StartsWith(path, prefix) ==
    Len(path) > Len(prefix) /\ SubSeq(path, 1, Len(prefix)) = prefix

\* the /shop routes of the router: <<method, path, handler>>
ShopRoutes ==
    {<<"GET", <<"shop", "health">>, "shop_health">>,
     <<"POST", <<"shop", "chat">>, "chat">>,
     <<"GET", <<"shop", "products">>, "shop_products">>,
     <<"GET", <<"shop", "products", "x">>, "shop_get_product">>,
     <<"GET", <<"shop", "media", "x">>, "shop_get_media">>,
     <<"GET", <<"shop", "invoices", "x">>, "shop_get_invoice">>,
     <<"GET", <<"shop", "orders">>, "shop_orders">>,
     <<"GET", <<"shop", "analytics">>, "shop_analytics">>,
     <<"POST", <<"shop", "licenses", "validate">>, "shop_validate_license">>,
     <<"GET", <<"shop", "coupons">>, "shop_get_coupons">>,
     <<"POST", <<"shop", "coupons">>, "shop_create_coupon">>,
     <<"GET", <<"shop", "state", "x">>, "shop_get_state">>,
     <<"PUT", <<"shop", "state", "x">>, "shop_set_state">>,
     <<"GET", <<"shop", "payment-methods">>, "shop_payment_methods">>,
     <<"GET", <<"shop", "admin", "summary">>, "shop_admin_summary">>,
     <<"POST", <<"shop", "auth", "login">>, "shop_auth_login">>,
     <<"POST", <<"shop", "auth", "verify-otp">>, "shop_auth_verify_otp">>,
     <<"POST", <<"shop", "auth", "register">>, "shop_auth_register">>,
     <<"POST", <<"shop", "auth", "discord", "link-token">>, "shop_auth_discord_link_token">>,
     <<"POST", <<"shop", "auth", "discord", "connect-url">>, "shop_auth_discord_connect_url">>,
     <<"GET", <<"shop", "auth", "discord", "callback">>, "shop_auth_discord_callback">>,
     <<"POST", <<"shop", "auth", "discord", "unlink">>, "shop_auth_discord_unlink">>,
     <<"POST", <<"shop", "products">>, "shop_upsert_product">>,
     <<"DELETE", <<"shop", "products", "x">>, "shop_delete_product">>,
     <<"GET", <<"shop", "inventory", "x">>, "shop_get_inventory">>,
     <<"POST", <<"shop", "inventory", "add">>, "shop_add_inventory">>,
     <<"POST", <<"shop", "stock">>, "shop_update_stock">>,
     <<"POST", <<"shop", "media", "upload">>, "shop_upload_media">>,
     <<"POST", <<"shop", "payments", "create">>, "shop_create_payment">>,
     <<"POST", <<"shop", "payments", "confirm">>, "shop_confirm_payment">>,
     <<"POST", <<"shop", "buy">>, "shop_buy">>,
     <<"POST", <<"shop", "orders", "x", "status">>, "shop_update_order_status">>}

_is_shop_public_request(method, path) ==
    \/ path \in {<<"shop", "health">>, <<"shop", "auth", "login">>,
                 <<"shop", "auth", "verify-otp">>, <<"shop", "auth", "register">>,
                 <<"shop", "auth", "discord", "callback">>}
    \/ /\ method = "GET"
       /\ \/ path = <<"shop", "products">>
          \/ StartsWith(path, <<"shop", "products">>)
          \/ StartsWith(path, <<"shop", "media">>)
          \/ path = <<"shop", "payment-methods">>
    \/ method = "POST" /\ path = <<"shop", "licenses", "validate">>
    \/ method = "POST" /\ path = <<"shop", "chat">>

_is_shop_admin_request(method, path) ==
    \/ StartsWith(path, <<"shop", "admin">>)
    \/ path = <<"shop", "analytics">>
    \/ StartsWith(path, <<"shop", "state">>)
    \/ path = <<"shop", "coupons">>
    \/ path = <<"shop", "products">> /\ method = "POST"
    \/ StartsWith(path, <<"shop", "products">>) /\ method = "DELETE"
    \/ StartsWith(path, <<"shop", "inventory">>)
    \/ path = <<"shop", "inventory", "add">>
    \/ path = <<"shop", "stock">>
    \/ path = <<"shop", "media", "upload">>
    \/ StartsWith(path, <<"shop", "orders">>) /\ method = "POST"

\* what the middleware does with a /shop request: 0 lets the handler run with
\* the session user, 500 is the answer of _error_middleware to an exception
_auth_middleware(method, path, token, t) ==
    LET shop_user == _parse_shop_session_from_request(token, t) IN
    IF method = "OPTIONS" THEN 0
    ELSE IF _is_shop_public_request(method, path) THEN 0
    ELSE IF shop_user.kind = "raise" THEN 500
    ELSE IF shop_user.kind # "user" THEN 401
    ELSE IF _is_shop_admin_request(method, path) /\ shop_user.role # "admin" THEN 403
    ELSE 0

(* the accounts at start *)

NoSessions == [k \in {} |-> 0]

\* the users document is seed; twofa tells whether 2FA is enabled and ready
AccountsInit(seed, twofa) ==
    /\ users = seed
    /\ login_otp_sessions = NoSessions
    /\ login_otp_last_sent_at = [email \in Emails |-> Never]
    /\ login_2fa_ready = twofa
    /\ minted = {}
    /\ sent = <<>>

(* ------------------------------ storage -------------------------------- *)

\* JSON values: null, a list of n entries, an object of n entries
None == [type |-> "null", items |-> 0]
JsonList(n) == [type |-> "list", items |-> n]
JsonDict(n) == [type |-> "dict", items |-> n]

\* a text is a sequence of tokens; "nl" is the line break json.dumps writes
\* with indent=2, "x" is one entry
Entries(n) == [i \in 1..n |-> "x"]

Dumps(value, indent) ==
    LET open == IF value.type = "list" THEN "[" ELSE "{"
        close == IF value.type = "list" THEN "]" ELSE "}"
    IN  IF value = None THEN <<"null">>
        ELSE IF value.items = 0 \/ indent = 0
             THEN <<open>> \o Entries(value.items) \o <<close>>
             ELSE <<open, "nl">> \o Entries(value.items) \o <<"nl", close>>

NoBreaks(text) == SelectSeq(text, LAMBDA c : c # "nl")

\* json.loads: ok is FALSE where it raises
Loads(text) ==
    LET t == NoBreaks(text)
        n == Len(t)
        inner == IF n >= 2 THEN SubSeq(t, 2, n - 1) ELSE <<>>
        entries == \A i \in 1..Len(inner) : inner[i] = "x"
    IN  IF t = <<"null">> THEN [ok |-> TRUE, value |-> None]
        ELSE IF n >= 2 /\ t[1] = "[" /\ t[n] = "]" /\ entries
             THEN [ok |-> TRUE, value |-> JsonList(n - 2)]
        ELSE IF n >= 2 /\ t[1] = "{" /\ t[n] = "}" /\ entries
             THEN [ok |-> TRUE, value |-> JsonDict(n - 2)]
        ELSE [ok |-> FALSE, value |-> None]

NoRows == [k \in {} |-> <<>>]

Put(rows, key, text) == [k \in DOMAIN rows \cup {key} |-> IF k = key THEN text ELSE rows[k]]

_read_json(fl, path, default) ==
    IF path \notin DOMAIN fl THEN default
    ELSE IF Loads(fl[path]).ok THEN Loads(fl[path]).value ELSE default

_write_json(fl, path, payload) == Put(fl, path, Dumps(payload, 2))

_db_get_json(kv, pool, key, default) ==
    IF ~pool THEN default
    ELSE IF key \notin DOMAIN kv THEN default
    ELSE IF Loads(kv[key]).ok THEN Loads(kv[key]).value ELSE default

_db_set_json(kv, pool, key, value) ==
    IF ~pool THEN kv ELSE Put(kv, key, Dumps(value, 0))

Truthy(existing) == existing.items > 0

\* "existing is not None"
Present(existing) == existing # None

_seed_kv_from_json(kv, fl, pool, key, path, default) ==
    IF ~pool THEN kv
    ELSE IF Present(_db_get_json(kv, pool, key, None)) THEN kv
    ELSE _db_set_json(kv, pool, key, _read_json(fl, path, default))

_state_storage_key(state_key) == <<"state:", state_key>>

_state_file(state_key) == <<"shop_state_", state_key, ".json">>

\* the documents: the products and one state key, in the order they are seeded
Documents ==
    << [key |-> <<"products">>, path |-> <<"shop_products.json">>, default |-> JsonList(0)],
       [key |-> _state_storage_key("settings"), path |-> _state_file("settings"),
        default |-> JsonDict(8)] >>

\* where initialisation can raise: at the pool, at CREATE TABLE, or at the
\* query of the n-th document
Faults == {"none", "pool", "table", "seed1", "seed2"}

SeededBefore(fault) ==
    CASE fault = "seed1" -> 0
      [] fault = "seed2" -> 1
      [] fault = "none" -> Len(Documents)
      [] OTHER -> 0

RECURSIVE SeedFirst(_, _, _, _)
SeedFirst(kv, fl, pool, n) ==
    IF n = 0 THEN kv
    ELSE LET d == Documents[n] IN
         _seed_kv_from_json(SeedFirst(kv, fl, pool, n - 1), fl, pool,
                            d.key, d.path, d.default)

\* raised, the pool and the table as initialisation leaves them
_init_supabase_storage(st, kv, fl, fault) ==
    IF ~st.db_url \/ fault = "pool"
    THEN [raised |-> TRUE, pg_pool |-> FALSE, kv |-> kv]
    ELSE IF fault = "table"
    THEN [raised |-> TRUE, pg_pool |-> TRUE, kv |-> kv]
    ELSE [raised |-> fault # "none", pg_pool |-> TRUE,
          kv |-> SeedFirst(kv, fl, TRUE, SeededBefore(fault))]

\* the flags of __init__ from SHOP_STORAGE_BACKEND, SHOP_REQUIRE_SUPABASE and
\* the database URL
BackendFlags(shop_storage_backend, require_env, db_url) ==
    LET require == shop_storage_backend = "supabase" \/ require_env IN
    [db_url |-> db_url,
     require_supabase_storage |-> require,
     use_supabase_storage |-> require \/ (shop_storage_backend = "auto" /\ db_url),
     pg_pool |-> FALSE, runner |-> FALSE, raised |-> FALSE, failed |-> FALSE]

start(st, kv, fl, fault) ==
    IF st.runner THEN [storage |-> st, kv |-> kv]
    ELSE IF st.use_supabase_storage
    THEN LET r == _init_supabase_storage(st, kv, fl, fault) IN
         IF r.raised
         THEN IF st.require_supabase_storage
              THEN [storage |-> [st EXCEPT !.pg_pool = r.pg_pool, !.failed = TRUE,
                                           !.raised = TRUE],
                    kv |-> r.kv]
              ELSE [storage |-> [st EXCEPT !.pg_pool = r.pg_pool, !.failed = TRUE,
                                           !.use_supabase_storage = FALSE,
                                           !.runner = TRUE],
                    kv |-> r.kv]
         ELSE [storage |-> [st EXCEPT !.pg_pool = r.pg_pool, !.runner = TRUE],
               kv |-> r.kv]
    ELSE [storage |-> [st EXCEPT !.runner = TRUE], kv |-> kv]

PoolOnly(st) == st.pg_pool

\* the test every load and save makes before it picks the table
UsesTable(st) == st.use_supabase_storage /\ st.pg_pool

\* a load: the stored document, or the default where none is stored or the
\* stored one is of the wrong type
LoadDocument(st, kv, fl, d) ==
    LET data == IF UsesTable(st) THEN _db_get_json(kv, st.pg_pool, d.key, d.default)
                ELSE _read_json(fl, d.path, d.default)
    IN  IF data.type = d.default.type THEN data ELSE d.default

SaveDocument(st, kv, fl, d, value) ==
    IF UsesTable(st)
    THEN [kv |-> _db_set_json(kv, st.pg_pool, d.key, value), files |-> fl]
    ELSE [kv |-> kv, files |-> _write_json(fl, d.path, value)]

\* a server that runs on the JSON files
FileBackend == [BackendFlags("json", FALSE, FALSE) EXCEPT !.runner = TRUE]

StorageInit ==
    /\ shop_kv = NoRows
    /\ files = NoRows
    /\ storage = FileBackend

(* ------------------------------- state --------------------------------- *)

SeedProducts ==
    << [id |-> "P1", price |-> 2000, stock |-> 0, inventory |-> <<>>, tiers |-> <<>>],
       [id |-> "P2", price |-> 3000, stock |-> 0, inventory |-> <<>>,
        tiers |-> << [id |-> "T1", price |-> 1004, stock |-> 0, inventory |-> <<>>],
                     [id |-> "T2", price |-> 0, stock |-> 0, inventory |-> <<>>] >>] >>

\* <<mail, log>>: how the two notifications of a recorded order went
NoNotice == <<"", "">>
Delivered == <<"sent", "sent">>
Notices == {Delivered, <<"raised", "sent">>, <<"failed", "failed">>}

\* what the client is answered; wrote tells whether the handler saved a document
Response(op, status, wrote) ==
    [op |-> op, status |-> status, wrote |-> wrote, order |-> NoOrder,
     productId |-> "", tierId |-> "", stock |-> 0, token |-> 0, lines |-> 0,
     notice |-> NoNotice]

NoTasks == <<>>

Init ==
    /\ products = SeedProducts
    /\ orders = <<>>
    /\ pending = [k \in {} |-> 0]
    /\ now = 0
    /\ nextCred = 1
    /\ nextToken = 1
    /\ origin = <<>>
    /\ last = Response("init", 0, FALSE)
    /\ tasks = NoTasks
    /\ settledTokens = {}
    /\ AccountsInit(<<DefaultAdmin>>, FALSE)
    /\ StorageInit

(* ------------------------------ actions -------------------------------- *)
(* An action runs one handler on one request and stores what it wrote.     *)
(* A specification chooses the requests its clients send.                  *)

UpsertFrom(payloads) ==
    \E product \in payloads :
        LET r == shop_upsert_product(product) IN
        /\ nextCred + PayloadFresh(product) - 1 <= MaxCred
        /\ products' = IF r.write THEN r.products ELSE products
        /\ nextCred' = IF r.write THEN nextCred + PayloadFresh(product) ELSE nextCred
        /\ last' = Response("upsert", r.status, r.write)
        /\ UNCHANGED <<accountVars, storageVars, orders, pending, now, nextToken, origin, tasks, settledTokens>>

Upsert == UpsertFrom(UpsertPayloads(nextCred))

Delete ==
    \E product_id \in {"P2"} :
        LET r == shop_delete_product(product_id) IN
        /\ products' = IF r.write THEN r.products ELSE products
        /\ last' = Response("delete", r.status, r.write)
        /\ UNCHANGED <<accountVars, storageVars, orders, pending, now, nextCred, nextToken, origin, tasks,
                       settledTokens>>

AddInventory(targets) ==
    \E target \in targets, raw_items \in StockPayloads(nextCred) :
        LET r == shop_add_inventory(target[1], target[2], raw_items) IN
        /\ nextCred + Fresh(raw_items) - 1 <= MaxCred
        /\ products' = IF r.write THEN r.products ELSE products
        /\ nextCred' = IF r.write THEN nextCred + Fresh(raw_items) ELSE nextCred
        /\ last' = [Response("addInventory", r.status, r.write) EXCEPT !.stock = r.stock]
        /\ UNCHANGED <<accountVars, storageVars, orders, pending, now, nextToken, origin, tasks, settledTokens>>

UpdateStock(targets) ==
    \E target \in targets, delta \in Deltas :
        LET r == shop_update_stock(target[1], target[2], delta) IN
        /\ products' = IF r.write THEN r.products ELSE products
        /\ last' = Response("adjustStock", r.status, r.write)
        /\ UNCHANGED <<accountVars, storageVars, orders, pending, now, nextCred, nextToken, origin, tasks,
                       settledTokens>>

\* the clock readings of a request: only a generated order id shows the clock
Clock(order_id) == IF order_id = "" THEN now..MaxTime ELSE {now}

\* lines is the number of lines of the cart the request carried
PurchaseResponse(op, r, token, lines) ==
    [op |-> op, status |-> r.status, wrote |-> r.write, order |-> r.order,
     productId |-> r.productId, tierId |-> r.tierId, stock |-> 0, token |-> token,
     lines |-> lines, notice |-> NoNotice]

\* /buy with the notifications of a recorded order going as notice tells
BuyNotifying(req, t, notice) ==
    LET r == Notify(shop_buy(req, t), notice[1], notice[2]) IN
    /\ r.write => Len(orders) < MaxOrders
    /\ now' = IF r.write /\ req.order.id = "" THEN t ELSE now
    /\ products' = IF r.write THEN r.products ELSE products
    /\ orders' = IF r.write THEN r.orders ELSE orders
    /\ origin' = IF r.write THEN Append(origin, [via |-> "buy", token |-> 0])
                 ELSE origin
    /\ last' = [PurchaseResponse("buy", r, 0, Len(req.order.items)) EXCEPT
                    !.notice = IF r.write THEN notice ELSE NoNotice]
    /\ UNCHANGED <<accountVars, storageVars, pending, nextCred, nextToken, tasks, settledTokens>>

BuyWith(req, t) == BuyNotifying(req, t, Delivered)

\* t is the wall clock the request reads; it never runs backwards
Buy(requests) == \E req \in requests : \E t \in Clock(req.order.id) : BuyWith(req, t)

\* the same with the notifications failing or not
BuyNotified(requests) ==
    \E req \in requests, notice \in Notices :
        \E t \in Clock(req.order.id) : BuyNotifying(req, t, notice)

CreatePayment(requests) ==
    \E req \in requests, gw \in {"ok", "fail"} :
        LET r == shop_create_payment(req, gw, nextToken) IN
        /\ nextToken <= MaxTokens
        /\ pending' = IF r.write THEN r.pending ELSE pending
        /\ nextToken' = IF r.write THEN nextToken + 1 ELSE nextToken
        /\ last' = [Response("create", r.status, r.write) EXCEPT
                        !.token = IF r.write THEN nextToken ELSE 0]
        /\ UNCHANGED <<accountVars, storageVars, products, orders, now, nextCred, origin, tasks, settledTokens>>

ConfirmWith(req, gw, meta, t) ==
    LET r == shop_confirm_payment(req, gw, meta, t) IN
    /\ r.write => Len(orders) < MaxOrders
    /\ now' = IF r.write /\ r.order.id = GeneratedOrderId(t) THEN t ELSE now
    /\ products' = IF r.write THEN r.products ELSE products
    /\ orders' = IF r.write THEN r.orders ELSE orders
    /\ pending' = r.pending
    /\ origin' = IF r.write THEN Append(origin, [via |-> "confirm", token |-> req.token])
                 ELSE origin
    /\ settledTokens' = IF gw = "paid" /\ req.token \in DOMAIN pending
                        THEN settledTokens \cup {req.token}
                        ELSE settledTokens
    /\ last' = PurchaseResponse("confirm", r, req.token, 0)
    /\ UNCHANGED <<accountVars, storageVars, nextCred, nextToken, tasks>>

ConfirmPayment(requests, answers) ==
    \E req \in requests, gw \in answers :
        \E t \in (IF req.token \in DOMAIN pending
                  THEN Clock(pending[req.token].order.id) ELSE {now}) :
            ConfirmWith(req, gw[1], gw[2], t)

(* ------------------- one request at a time, every handler --------------- *)

Next ==
    \/ Upsert
    \/ Delete
    \/ AddInventory(CoreTargets)
    \/ UpdateStock(CoreTargets)
    \/ Buy(CoreBuyRequests)
    \/ CreatePayment(CoreCreateRequests)
    \/ ConfirmPayment(CoreConfirmRequests, CoreGatewayAnswers)

Spec == Init /\ [][Next]_vars

(* ------------- one request at a time, stocking and /buy only ------------ *)

NextBuy ==
    \/ AddInventory(CoreTargets)
    \/ Buy(BuyRequests)

SpecBuy == Init /\ [][NextBuy]_vars

(* ------- one request at a time, stocking, /buy and the order status ----- *)

\* the order ids and statuses an order-status request names
StatusRequests == {"o1", "o9"} \X {"completed", "refunded", "shipped"}

UpdateOrderStatus ==
    \E req \in StatusRequests :
        LET r == shop_update_order_status(req[1], req[2]) IN
        /\ orders' = IF r.write THEN r.orders ELSE orders
        /\ last' = Response("orderStatus", r.status, r.write)
        /\ UNCHANGED <<accountVars, storageVars, products, pending, now, nextCred, nextToken, origin, tasks,
                       settledTokens>>

\* the core carts and a cart with two lines of the same product
OrdersBuyRequests ==
    CoreBuyRequests
    \cup {BuyRequest(u1, "", <<Line("P1", "", 1), Line("P1", "", 1)>>, "", FALSE)}

NextOrders ==
    \/ AddInventory(CoreTargets)
    \/ BuyNotified(OrdersBuyRequests)
    \/ UpdateOrderStatus

SpecOrders == Init /\ [][NextOrders]_vars

(* ---------- one request at a time, the catalogue handlers only ---------- *)

NextCat ==
    \/ UpsertFrom(CatUpsertPayloads(nextCred))
    \/ Delete
    \/ AddInventory(CatTargets)
    \/ UpdateStock(CatTargets)

SpecCat == Init /\ [][NextCat]_vars

(* ------------- one request at a time, accounts and sessions ------------- *)
(* SpecAuth runs logins without a second factor, the administrator's PUT   *)
(* of the users list and requests to routes behind the middleware while    *)
(* the wall clock advances.  SpecOtp runs logins with the second factor    *)
(* and /verify-otp.  SpecUsers runs every handler that reads or writes the *)
(* users document.                                                         *)

MaxMinted == 2

Row(id, email, password, role) ==
    [id |-> id, email |-> email, password |-> <<"raw", password>>, role |-> role,
     discordId |-> ""]

\* a customer, and a user whose id is blank and whose role is spelled "Admin"
BlankIdList == <<Row("u1", "a@x", "pw", "user"), Row(" ", "b@x", "pw", "Admin")>>

\* the lists an administrator puts: none, one user, the same e-mail twice in
\* two spellings, the administrator demoted, and a row with a blank id
UserLists ==
    {<<>>,
     <<Row("", "a@x", "pw", "user")>>,
     <<Row("u1", "a@x", "pw", "user"), Row("u2", "A@X", "pw", "user")>>,
     <<Row("x9", "ADMIN@X", "pw", "user")>>,
     BlankIdList}

AuthLogins ==
    {[email |-> admin_email, password |-> admin_password],
     [email |-> "a@x", password |-> "pw"], [email |-> "b@x", password |-> "pw"],
     [email |-> "a@x", password |-> "bad"]}
OtpLogins == [email : {"ADMIN@X"}, password : {"pw", admin_password}]
AdminLogins == [email : {admin_email}, password : {admin_password}]
VerifyRequests == [otpToken : 1..MaxOtps, code : Codes]
RegisterRequests == [email : {"a@x", "A@X"}, password : {"pw"}]

\* a token as a client presents it: c written over the i-th character
Overwrite(token, i, c) == [token EXCEPT ![i] = c]

\* a token signed with a key the server does not hold
ForgedToken(t) ==
    LET payload_b64 == EncodePayload([uid |-> "admin-1337", email |-> admin_email,
                                      role |-> "admin", iat |-> t,
                                      exp |-> t + auth_session_ttl_seconds])
    IN  payload_b64 \o <<Dot>> \o Hmac("k1", payload_b64)

\* the bearer tokens the clients present: none, a forged one, the minted ones,
\* and minted ones with the role or the last character of the signature changed
Presented ==
    {NoToken, ForgedToken(now)}
        \cup {m.token : m \in minted}
        \cup {Overwrite(m.token, 4, "admin") : m \in minted}
        \cup {Overwrite(m.token, Len(m.token), HighByte) : m \in minted}

NoReply ==
    [op |-> "init", status |-> 0, loaded |-> FALSE, requires2fa |-> FALSE,
     otpToken |-> 0, sessionToken |-> NoToken, token |-> NoToken, code |-> ""]

AuthInit(seeds, twofa, flights) ==
    /\ products = SeedProducts
    /\ orders = <<>>
    /\ pending = [k \in {} |-> 0]
    /\ now = 0
    /\ nextCred = 1
    /\ nextToken = 1
    /\ origin = <<>>
    /\ tasks = flights
    /\ settledTokens = {}
    /\ \E seed \in seeds : AccountsInit(seed, twofa)
    /\ StorageInit
    /\ last = NoReply

\* the handler has answered r: its writes are stored, the session token and
\* the one-time code it made are remembered, and so are the wrong codes it
\* counted; token is the bearer token and code the one-time code presented
Settle(op, r, token, code) ==
    /\ Len(r.users) <= MaxUsers
    /\ r.sessionToken # NoToken =>
          Cardinality(minted \cup {[token |-> r.sessionToken, user |-> r.user,
                                    at |-> now]}) <= MaxMinted
    /\ users' = r.users
    /\ login_otp_sessions' = r.sessions
    /\ login_otp_last_sent_at' = r.lastSent
    /\ minted' = IF r.sessionToken # NoToken
                 THEN minted \cup {[token |-> r.sessionToken, user |-> r.user, at |-> now]}
                 ELSE minted
    /\ sent' = IF r.created # <<>>
               THEN Append(sent, [token |-> r.created[1], email |-> r.created[2],
                                  code |-> r.created[3], delivered |-> r.created[4],
                                  at |-> now, wrong |-> 0])
               ELSE IF r.counted # 0
               THEN [sent EXCEPT ![r.counted].wrong =
                        Min(@ + 1, login_otp_max_attempts)]
               ELSE sent
    /\ last' = [op |-> op, status |-> r.status, loaded |-> r.loaded,
                requires2fa |-> r.requires2fa, otpToken |-> r.otpToken,
                sessionToken |-> r.sessionToken, token |-> token, code |-> code]
    /\ UNCHANGED <<storeVars, storageVars, now, tasks, login_2fa_ready>>

Tick ==
    /\ now < MaxClock
    /\ now' = now + 1
    /\ last' = [NoReply EXCEPT !.op = "tick"]
    /\ UNCHANGED <<storeVars, storageVars, accountVars, tasks>>

Login(requests) ==
    \E req \in requests, otp_code \in Codes, sent_ok \in BOOLEAN :
        LET r == shop_auth_login(req, now, Len(sent) + 1, otp_code, sent_ok) IN
        /\ r.created # <<>> => Len(sent) < MaxOtps
        /\ Settle("login", r, NoToken, "")

VerifyOtp ==
    \E req \in VerifyRequests :
        LET r == shop_auth_verify_otp(req, now) IN
        /\ req.otpToken <= Len(sent)
        /\ Settle("verify", [r EXCEPT !.otpToken = req.otpToken], NoToken, req.code)

Register ==
    \E req \in RegisterRequests :
        LET r == shop_auth_register(req, now) IN
        /\ Settle("register", r, NoToken, "")

\* a request to a route behind the middleware: the middleware, then the handler
Guarded(op, method, path, token, r) ==
    LET decision == _auth_middleware(method, path, token, now) IN
    Settle(op, IF decision = 0 THEN r ELSE Answer(decision), token, "")

SetUsers(lists) ==
    \E token \in Presented, state_value \in lists :
        /\ Guarded("setUsers", "PUT", <<"shop", "state", "x">>, token,
                   shop_set_state_users(state_value, now))

DiscordUnlink ==
    \E token \in Presented :
        /\ Guarded("unlink", "POST", <<"shop", "auth", "discord", "unlink">>, token,
                   shop_auth_discord_unlink(
                       _parse_shop_session_from_request(token, now), now))

\* Discord calls back for a link token that was issued with a session token
DiscordCallback ==
    \E m \in minted :
        /\ Settle("link",
                  shop_auth_discord_callback(Strip(m.user.id), m.user.email, "d1", now),
                  NoToken, "")

\* two other routes behind the middleware; their handlers leave the accounts alone
RouteRequests ==
    {<<"GET", <<"shop", "orders">> >>, <<"GET", <<"shop", "admin", "summary">> >>}

Route ==
    \E request \in RouteRequests, token \in Presented :
        /\ Guarded("route", request[1], request[2], token, Answer(200))

InitAuth == AuthInit({<<DefaultAdmin>>}, FALSE, NoTasks)

NextAuth ==
    \/ Tick
    \/ Login(AuthLogins)
    \/ SetUsers({BlankIdList})
    \/ Route

SpecAuth == InitAuth /\ [][NextAuth]_vars

InitOtp == AuthInit({<<DefaultAdmin>>}, TRUE, NoTasks)

NextOtp ==
    \/ Tick
    \/ Login(OtpLogins)
    \/ VerifyOtp

SpecOtp == InitOtp /\ [][NextOtp]_vars

\* a users file that holds no list entry, and one that holds a customer only
SeedLists ==
    {<<DefaultAdmin>>, <<>>,
     <<[id |-> "u1", email |-> "a@x", password |-> _hash_password("pw"),
        role |-> "user", discordId |-> ""]>>}

InitUsers == AuthInit(SeedLists, FALSE, NoTasks)

NextUsers ==
    \/ Login(AdminLogins)
    \/ Register
    \/ SetUsers(UserLists)
    \/ DiscordCallback
    \/ DiscordUnlink

SpecUsers == InitUsers /\ [][NextUsers]_vars

(* ------------------------------- boot ---------------------------------- *)

\* what the table and the files can hold when the process starts: texts this
\* program wrote, and a file cut short by a crash
TableTexts(d) == {Dumps(d.default, 0), Dumps([d.default EXCEPT !.items = 1], 0),
                  Dumps([d.default EXCEPT !.items = 0], 0)}

FileTexts(d) == {Dumps([d.default EXCEPT !.items = 2], 2),
                 Dumps([d.default EXCEPT !.items = 0], 2),
                 <<IF d.default.type = "list" THEN "[" ELSE "{", "nl", "x">>}

Keys == {Documents[i].key : i \in 1..Len(Documents)}
Paths == {Documents[i].path : i \in 1..Len(Documents)}
DocumentOf(key) == CHOOSE d \in {Documents[i] : i \in 1..Len(Documents)} : d.key = key
DocumentAt(path) == CHOOSE d \in {Documents[i] : i \in 1..Len(Documents)} : d.path = path

Tables ==
    UNION {{kv \in [present -> UNION {TableTexts(DocumentOf(k)) : k \in present}] :
               \A k \in present : kv[k] \in TableTexts(DocumentOf(k))}
           : present \in SUBSET Keys}

Folders ==
    UNION {{fl \in [present -> UNION {FileTexts(DocumentAt(f)) : f \in present}] :
               \A f \in present : fl[f] \in FileTexts(DocumentAt(f))}
           : present \in SUBSET Paths}

BootReply == [op |-> "init", key |-> <<>>, value |-> None, seeded |-> {}]

InitBoot ==
    /\ products = SeedProducts
    /\ orders = <<>>
    /\ pending = [k \in {} |-> 0]
    /\ now = 0
    /\ nextCred = 1
    /\ nextToken = 1
    /\ origin = <<>>
    /\ tasks = NoTasks
    /\ settledTokens = {}
    /\ AccountsInit(<<DefaultAdmin>>, FALSE)
    /\ shop_kv \in Tables
    /\ files \in Folders
    /\ \E backend \in {"auto", "supabase", "json"}, require_env \in BOOLEAN,
          db_url \in BOOLEAN :
          storage = BackendFlags(backend, require_env, db_url)
    /\ last = BootReply

Start ==
    \E fault \in Faults :
        LET r == start(storage, shop_kv, files, fault) IN
        /\ ~storage.runner
        /\ ~storage.raised
        /\ storage' = r.storage
        /\ shop_kv' = r.kv
        /\ last' = [BootReply EXCEPT !.op = "start",
                                     !.seeded = DOMAIN r.kv \ DOMAIN shop_kv]
        /\ UNCHANGED <<storeVars, now, tasks, accountVars, files>>

Load ==
    \E i \in 1..Len(Documents) :
        LET d == Documents[i] IN
        /\ storage.runner
        /\ last' = [BootReply EXCEPT !.op = "load", !.key = d.key,
                                     !.value = LoadDocument(storage, shop_kv, files, d)]
        /\ UNCHANGED <<storeVars, now, tasks, accountVars, storageVars>>

Save ==
    \E i \in 1..Len(Documents) :
        LET d == Documents[i]
            value == [d.default EXCEPT !.items = 3]
            r == SaveDocument(storage, shop_kv, files, d, value)
        IN  /\ storage.runner
            /\ shop_kv' = r.kv
            /\ files' = r.files
            /\ last' = [BootReply EXCEPT !.op = "save", !.key = d.key, !.value = value]
            /\ UNCHANGED <<storeVars, now, tasks, accountVars, storage>>

NextBoot == Start \/ Load \/ Save

SpecBoot == InitBoot /\ [][NextBoot]_vars

(* ------------- two logins in flight, interleaved at the e-mail ----------- *)
(* _send_login_otp_email is awaited, so another login can run between the   *)
(* making of a code and the return of its e-mail.  A task is one login in   *)
(* flight; it remembers the code it made.                                   *)

Flights == {1, 2}

IdleLogin == [pc |-> "idle", status |-> 0, otpToken |-> 0, created |-> <<>>]

ConcLogins == {[email |-> admin_email, password |-> admin_password]}

InitLogin == AuthInit({<<DefaultAdmin>>}, TRUE, [i \in Flights |-> IdleLogin])

\* the codes made for e-mails that have not returned yet
Sending == {i \in Flights : tasks[i].pc = "sending"}

\* shop_auth_login receives a request and runs up to the awaited e-mail
StartLogin(i) ==
    \E req \in ConcLogins, otp_code \in Codes :
        LET r == LoginCheck(req, now, Len(sent) + Cardinality(Sending) + 1, otp_code) IN
        /\ tasks[i].pc \in {"idle", "done"}
        /\ r.status = 0 => Len(sent) + Cardinality(Sending) < MaxOtps
        /\ users' = r.users
        /\ login_otp_sessions' = r.sessions
        /\ tasks' = [tasks EXCEPT ![i] =
                        IF r.status = 0
                        THEN [pc |-> "sending", status |-> 0, otpToken |-> r.otpToken,
                              created |-> r.created]
                        ELSE [IdleLogin EXCEPT !.pc = "done", !.status = r.status]]
        /\ last' = [NoReply EXCEPT !.op = "login", !.status = r.status]
        /\ UNCHANGED <<storeVars, storageVars, now, login_otp_last_sent_at,
                       login_2fa_ready, minted, sent>>

\* the e-mail of task i returns and the login runs to its answer
EmailReturns(i) ==
    \E sent_ok \in BOOLEAN :
        LET r == LoginResume([Answer(0) EXCEPT !.otpToken = tasks[i].otpToken,
                                               !.created = tasks[i].created],
                             login_otp_sessions, login_otp_last_sent_at, sent_ok, now)
        IN
        /\ tasks[i].pc = "sending"
        /\ login_otp_sessions' = r.sessions
        /\ login_otp_last_sent_at' = r.lastSent
        /\ sent' = Append(sent, [token |-> r.created[1], email |-> r.created[2],
                                 code |-> r.created[3], delivered |-> r.created[4],
                                 at |-> now, wrong |-> 0])
        /\ tasks' = [tasks EXCEPT ![i] =
                        [IdleLogin EXCEPT !.pc = "done", !.status = r.status,
                                          !.otpToken = r.otpToken]]
        /\ last' = [NoReply EXCEPT !.op = "login", !.status = r.status,
                                   !.requires2fa = r.requires2fa,
                                   !.otpToken = r.otpToken]
        /\ UNCHANGED <<storeVars, storageVars, now, users, login_2fa_ready, minted>>

NextLogin ==
    \/ Tick
    \/ \E i \in Flights : StartLogin(i)
    \/ \E i \in Flights : EmailReturns(i)

SpecLogin == InitLogin /\ [][NextLogin]_vars

(* --------- two requests in flight, interleaved at the store calls ------- *)
(* With the relational backend every _load_* and _save_* awaits the store,  *)
(* and shop_confirm_payment awaits the gateway, so another request can run  *)
(* between any two of these calls.  A task is one request in flight; what   *)
(* it has loaded is local to it.                                            *)

TaskIds == {1, 2}

NoPayload == [id |-> "", items |-> <<>>, total |-> 0]
NoPending == [k \in {} |-> 0]

IdleTask ==
    [kind |-> "idle", pc |-> "idle", user |-> u1, order |-> NoPayload,
     method |-> "", verified |-> FALSE, token |-> 0,
     ps |-> <<>>, pend |-> NoPending,
     products |-> <<>>, orders |-> <<>>,
     status |-> 0, answer |-> NoOrder,
     decremented |-> FALSE, appended |-> FALSE]

\* the entry /payments/create stored for a one-line cart of P1
PendingEntry(order_id) ==
    [order |-> [id |-> order_id,
                items |-> << [id |-> <<"P1", "">>, productId |-> "P1", tierId |-> "",
                              quantity |-> 1, price |-> 2000] >>,
                total |-> 2000],
     user |-> u1, paymentMethod |-> "card", completed |-> FALSE]

ConcBuyRequests ==
    {BuyRequest(u1, o, <<Line("P1", "", 1)>>, "", FALSE) : o \in {"", "o1"}}

ConcCreateRequests == {CreateRequest(u1, "", m) : m \in {"card", "crypto"}}

ConcConfirmRequests == [user : {u1}, token : 1..MaxTokens, paymentMethod : {""}]

\* a store that holds stock of P1 and the pending payment of token 1
InitConc ==
    /\ \E inventory \in {Take(<<1, 2>>, n) : n \in 1..MaxCred} :
          /\ products = [SeedProducts EXCEPT ![1].inventory = inventory,
                                             ![1].stock = Len(inventory)]
          /\ nextCred = Len(inventory) + 1
    /\ orders = <<>>
    /\ \E order_id \in {"", "o1"} : pending = [k \in {1} |-> PendingEntry(order_id)]
    /\ now = 0
    /\ nextToken = 2
    /\ origin = <<>>
    /\ last = Response("init", 0, FALSE)
    /\ tasks = [i \in TaskIds |-> IdleTask]
    /\ settledTokens = {}
    /\ AccountsInit(<<DefaultAdmin>>, FALSE)
    /\ StorageInit

Respond(task, status, answer) ==
    [task EXCEPT !.pc = "done", !.status = status, !.answer = answer]

\* shop_buy receives a request
StartBuy(i) ==
    /\ tasks[i].pc = "idle"
    /\ \E req \in ConcBuyRequests :
          tasks' = [tasks EXCEPT ![i] =
                       [@ EXCEPT !.kind = "buy", !.pc = "prepare",
                                 !.user = req.user, !.order = req.order,
                                 !.method = req.paymentMethod,
                                 !.verified = req.paymentVerified]]
    /\ UNCHANGED <<accountVars, storageVars, products, orders, pending, now, nextCred, nextToken, origin, last,
                   settledTokens>>

\* shop_buy: await _prepare_order_items (which loads products), the card gate
Prepare(i) ==
    LET task == tasks[i]
        prepared == _prepare_order_items(_load_products, task.order.items)
    IN /\ task.pc = "prepare"
       /\ tasks' = [tasks EXCEPT ![i] =
              IF prepared.status # 0 THEN Respond(task, prepared.status, NoOrder)
              ELSE IF CardGate(task.method, task.verified)
              THEN Respond(task, 402, NoOrder)
              ELSE [task EXCEPT !.pc = "load_products",
                                !.order = [id |-> task.order.id,
                                           items |-> prepared.items,
                                           total |-> prepared.total]]]
       /\ UNCHANGED <<accountVars, storageVars, products, orders, pending, now, nextCred, nextToken, origin,
                      last, settledTokens>>

\* shop_confirm_payment receives a request
StartConfirm(i) ==
    /\ tasks[i].pc = "idle"
    /\ \E req \in ConcConfirmRequests :
          tasks' = [tasks EXCEPT ![i] =
                       [@ EXCEPT !.kind = "confirm", !.pc = "load_pending",
                                 !.user = req.user, !.token = req.token]]
    /\ UNCHANGED <<accountVars, storageVars, products, orders, pending, now, nextCred, nextToken, origin, last,
                   settledTokens>>

\* shop_confirm_payment: await _load_pending_payments, then the checks on
\* the entry that come before the gateway is asked
LoadPending(i) ==
    LET task == tasks[i]
        gate == ConfirmGate([user |-> task.user, token |-> task.token,
                             paymentMethod |-> ""], "paid", 0)
    IN /\ task.pc = "load_pending"
       /\ tasks' = [tasks EXCEPT ![i] =
              IF gate # 0 THEN Respond(task, gate, NoOrder)
              ELSE [task EXCEPT !.pc = "gateway", !.pend = pending,
                                !.order = pending[task.token].order,
                                !.user = pending[task.token].user,
                                !.method = pending[task.token].paymentMethod]]
       /\ UNCHANGED <<accountVars, storageVars, products, orders, pending, now, nextCred, nextToken, origin,
                      last, settledTokens>>

\* shop_confirm_payment: await the gateway's answer about the payment
Gateway(i) ==
    LET task == tasks[i] IN
    /\ task.pc = "gateway"
    /\ \E gw \in {"paid", "unpaid"} :
          /\ tasks' = [tasks EXCEPT ![i] =
                 IF gw = "paid" THEN [task EXCEPT !.pc = "load_products"]
                 ELSE Respond(task, 402, NoOrder)]
          /\ settledTokens' = IF gw = "paid" THEN settledTokens \cup {task.token}
                              ELSE settledTokens
    /\ UNCHANGED <<accountVars, storageVars, products, orders, pending, now, nextCred, nextToken, origin, last>>

\* _process_purchase: products = await self._load_products()
LoadProducts(i) ==
    /\ tasks[i].pc = "load_products"
    /\ tasks' = [tasks EXCEPT ![i] = [@ EXCEPT !.pc = "load_orders",
                                               !.ps = _load_products]]
    /\ UNCHANGED <<accountVars, storageVars, products, orders, pending, now, nextCred, nextToken, origin, last,
                   settledTokens>>

\* _process_purchase: existing_orders = await self._load_orders(), then the
\* order-id lookup, the check loop and the allocation loop on what was loaded
LoadOrders(i) ==
    LET task == tasks[i]
        r == _process_purchase(task.ps, orders, task.order, task.user, task.method, now)
    IN /\ task.pc = "load_orders"
       /\ tasks' = [tasks EXCEPT ![i] =
              IF r.write
              THEN [task EXCEPT !.pc = "save_products", !.products = r.products,
                                !.orders = r.orders, !.answer = r.order]
              ELSE IF r.status = 200 /\ task.kind = "confirm"
              THEN [task EXCEPT !.pc = "save_pending", !.answer = r.order]
              ELSE Respond(task, r.status, r.order)]
       /\ UNCHANGED <<accountVars, storageVars, products, orders, pending, now, nextCred, nextToken, origin,
                      last, settledTokens>>

\* _process_purchase: await self._save_products(normalized_products)
SaveProducts(i) ==
    /\ tasks[i].pc = "save_products"
    /\ products' = tasks[i].products
    /\ tasks' = [tasks EXCEPT ![i] = [@ EXCEPT !.pc = "save_orders",
                                               !.decremented = TRUE]]
    /\ UNCHANGED <<accountVars, storageVars, orders, pending, now, nextCred, nextToken, origin, last,
                   settledTokens>>

\* _process_purchase: await self._save_orders(orders)
SaveOrders(i) ==
    LET task == [tasks[i] EXCEPT !.appended = TRUE] IN
    /\ tasks[i].pc = "save_orders"
    /\ orders' = task.orders
    /\ tasks' = [tasks EXCEPT ![i] =
           IF task.kind = "confirm" THEN [task EXCEPT !.pc = "save_pending"]
           ELSE Respond(task, 200, task.answer)]
    /\ UNCHANGED <<accountVars, storageVars, products, pending, now, nextCred, nextToken, origin, last,
                   settledTokens>>

\* shop_confirm_payment: pending[token] = the completed entry, then
\* await self._save_pending_payments(pending) with the document it loaded
SavePending(i) ==
    LET task == tasks[i] IN
    /\ task.pc = "save_pending"
    /\ pending' = [task.pend EXCEPT ![task.token].completed = TRUE]
    /\ tasks' = [tasks EXCEPT ![i] = Respond(task, 200, task.answer)]
    /\ UNCHANGED <<accountVars, storageVars, products, orders, now, nextCred, nextToken, origin, last,
                   settledTokens>>

\* shop_create_payment receives a request
StartCreate(i) ==
    /\ tasks[i].pc = "idle"
    /\ nextToken <= MaxTokens + 1
    /\ \E req \in ConcCreateRequests :
          tasks' = [tasks EXCEPT ![i] =
                       [@ EXCEPT !.kind = "create", !.pc = "create_load",
                                 !.user = req.user, !.order = req.order,
                                 !.method = req.paymentMethod]]
    /\ UNCHANGED <<accountVars, storageVars, products, orders, pending, now, nextCred, nextToken, origin, last,
                   settledTokens>>

\* shop_create_payment: the checks on the cart and the method, then
\* pending = await self._load_pending_payments() and pending[token] = entry
CreateLoad(i) ==
    LET task == tasks[i]
        req == [user |-> task.user, order |-> task.order, paymentMethod |-> task.method]
        r == shop_create_payment(req, "ok", nextToken)
    IN /\ task.pc = "create_load"
       /\ tasks' = [tasks EXCEPT ![i] =
              IF ~r.write THEN Respond(task, r.status, NoOrder)
              ELSE [task EXCEPT !.pend = r.pending, !.token = nextToken,
                                !.pc = IF task.method = "crypto" THEN "create_gateway"
                                       ELSE "create_save"]]
       /\ nextToken' = IF r.write THEN nextToken + 1 ELSE nextToken
       /\ UNCHANGED <<accountVars, storageVars, products, orders, pending, now, nextCred, origin, last,
                      settledTokens>>

\* shop_create_payment, crypto: await the gateway's invoice for the entry
CreateGateway(i) ==
    LET task == tasks[i] IN
    /\ task.pc = "create_gateway"
    /\ \E gw \in {"ok", "fail"} :
          tasks' = [tasks EXCEPT ![i] =
                       IF gw = "ok" THEN [task EXCEPT !.pc = "create_save"]
                       ELSE Respond(task, 502, NoOrder)]
    /\ UNCHANGED <<accountVars, storageVars, products, orders, pending, now, nextCred, nextToken, origin, last,
                   settledTokens>>

\* shop_create_payment: await self._save_pending_payments(pending) with the
\* document it loaded
CreateSave(i) ==
    LET task == tasks[i] IN
    /\ task.pc = "create_save"
    /\ pending' = task.pend
    /\ tasks' = [tasks EXCEPT ![i] = Respond(task, 200, NoOrder)]
    /\ UNCHANGED <<accountVars, storageVars, products, orders, now, nextCred, nextToken, origin, last,
                   settledTokens>>

NextConc ==
    \E i \in TaskIds :
        \/ StartCreate(i)
        \/ CreateLoad(i)
        \/ CreateGateway(i)
        \/ CreateSave(i)
        \/ StartBuy(i)
        \/ Prepare(i)
        \/ StartConfirm(i)
        \/ LoadPending(i)
        \/ Gateway(i)
        \/ LoadProducts(i)
        \/ LoadOrders(i)
        \/ SaveProducts(i)
        \/ SaveOrders(i)
        \/ SavePending(i)

SpecConc == InitConc /\ [][NextConc]_vars


(* ---------------- a purchase that fails between its two writes ---------- *)
(* _process_purchase awaits _save_products and then _save_orders.  When the *)
(* second write raises, the error middleware answers 500 and the products   *)
(* document stays as the first write left it.  The client then sends the    *)
(* same request again.                                                     *)

NoAttempt == [phase |-> "none", before |-> <<>>, req |-> BuyRequest(u1, "", <<>>, "", FALSE)]

\* one-line carts with a client-chosen order id
RetryRequests ==
    {BuyRequest(u1, o, <<Line(l[1], l[2], q)>>, "", FALSE) :
        o \in {"o1", "o2"}, l \in CoreTargets, q \in Quantities}

InitRetry ==
    /\ products = SeedProducts
    /\ orders = <<>>
    /\ pending = [k \in {} |-> 0]
    /\ now = 0
    /\ nextCred = 1
    /\ nextToken = 1
    /\ origin = <<>>
    /\ last = Response("init", 0, FALSE)
    /\ tasks = NoAttempt
    /\ settledTokens = {}
    /\ AccountsInit(<<DefaultAdmin>>, FALSE)
    /\ StorageInit

Restock ==
    /\ tasks.phase # "failed"
    /\ AddInventory(CoreTargets)

\* /buy up to and including _save_products; _save_orders raises
BuyFails ==
    \E req \in RetryRequests :
        LET r == shop_buy(req, now) IN
        /\ tasks.phase # "failed"
        /\ r.write
        /\ products' = r.products
        /\ tasks' = [phase |-> "failed", before |-> products, req |-> req]
        /\ last' = Response("buy", 500, TRUE)
        /\ UNCHANGED <<accountVars, storageVars, orders, pending, now, nextCred,
                       nextToken, origin, settledTokens>>

\* the same request again, both writes going through
BuyRetry ==
    LET r == shop_buy(tasks.req, now) IN
    /\ tasks.phase = "failed"
    /\ r.write => Len(orders) < MaxOrders
    /\ products' = IF r.write THEN r.products ELSE products
    /\ orders' = IF r.write THEN r.orders ELSE orders
    /\ origin' = IF r.write THEN Append(origin, [via |-> "buy", token |-> 0]) ELSE origin
    /\ tasks' = [tasks EXCEPT !.phase = "retried"]
    /\ last' = PurchaseResponse("retry", r, 0, Len(tasks.req.order.items))
    /\ UNCHANGED <<accountVars, storageVars, pending, now, nextCred, nextToken,
                   settledTokens>>

NextRetry == Restock \/ BuyFails \/ BuyRetry

SpecRetry == InitRetry /\ [][NextRetry]_vars

(* ------------- /payments/create under the payment-method switches ------- *)

\* the switches of _load_payment_method_toggles, one per gateway method
PaymentToggles == [GatewayMethods -> BOOLEAN]

\* the configuration a /payments/create request meets: whether the card
\* gateway key is set, and the switches of the payment_methods state
AllMethodsOn == [stripe_secret_key |-> TRUE,
                 payment_methods |-> [m \in GatewayMethods |-> TRUE]]

\* _compute_payment_methods with the card key and the switches as given
ComputePaymentMethods(card_key, toggles) ==
    [m \in GatewayMethods |->
        [enabled |-> /\ IF m = "card" THEN card_key
                        ELSE IF m = "paypal" THEN paypal_automated
                        ELSE oxapay_merchant_api_key
                     /\ toggles[m]]]

\* shop_create_payment with the card key and the switches as given
CreatePaymentUnder(card_key, toggles, req, gw, pending_token) ==
    LET payment_method == IF req.paymentMethod = "" THEN "card" ELSE req.paymentMethod
        prepared == _prepare_order_items(_load_products, req.order.items)
        order_payload == [id |-> req.order.id, items |-> prepared.items,
                          total |-> prepared.total]
        entry == [order |-> order_payload, user |-> req.user,
                  paymentMethod |-> payment_method, completed |-> FALSE]
        stored == [k \in (DOMAIN pending) \cup {pending_token} |->
                      IF k = pending_token THEN entry ELSE pending[k]]
        reject(code) == [status |-> code, pending |-> pending, write |-> FALSE]
    IN IF prepared.status # 0 THEN reject(prepared.status)
       ELSE IF prepared.total <= 0 THEN reject(400)
       ELSE IF payment_method \in GatewayMethods
               /\ ~ComputePaymentMethods(card_key, toggles)[payment_method].enabled
       THEN reject(400)
       ELSE IF payment_method \in {"paypal", "crypto"}
       THEN IF gw # "ok" THEN reject(502)
            ELSE [status |-> 200, pending |-> stored, write |-> TRUE]
       ELSE IF ~card_key THEN reject(503)
       ELSE \* any other method string: the card checkout
            [status |-> IF gw = "ok" THEN 200 ELSE 502,
             pending |-> stored, write |-> TRUE]

PayRequests ==
    {CreateRequest(u, o, m) : u \in {u1, u2}, o \in {"", "o1"},
                              m \in {"", "card", "crypto", "bank"}}

\* the card key is set or not when the server is constructed; the switches
\* are all on until the payment_methods state is written
InitPay ==
    /\ products = SeedProducts
    /\ orders = <<>>
    /\ pending = [k \in {} |-> 0]
    /\ now = 0
    /\ nextCred = 1
    /\ nextToken = 1
    /\ origin = <<>>
    /\ last = Response("init", 0, FALSE)
    /\ tasks \in {[AllMethodsOn EXCEPT !.stripe_secret_key = key] : key \in BOOLEAN}
    /\ settledTokens = {}
    /\ AccountsInit(<<DefaultAdmin>>, FALSE)
    /\ StorageInit

\* PUT /state/payment_methods by an admin
SetPaymentMethods ==
    \E toggles \in PaymentToggles :
        /\ tasks' = [tasks EXCEPT !.payment_methods = toggles]
        /\ last' = Response("toggles", 200, TRUE)
        /\ UNCHANGED <<accountVars, storageVars, storeVars, now>>

CreatePaymentPay ==
    \E req \in PayRequests, gw \in {"ok", "fail"} :
        LET r == CreatePaymentUnder(tasks.stripe_secret_key, tasks.payment_methods,
                                    req, gw, nextToken) IN
        /\ nextToken <= MaxTokens
        /\ pending' = IF r.write THEN r.pending ELSE pending
        /\ nextToken' = IF r.write THEN nextToken + 1 ELSE nextToken
        /\ last' = [Response("create", r.status, r.write) EXCEPT
                        !.token = IF r.write THEN nextToken ELSE 0]
        /\ UNCHANGED <<accountVars, storageVars, products, orders, now, nextCred, origin, tasks, settledTokens>>

NextPay == SetPaymentMethods \/ CreatePaymentPay

SpecPay == InitPay /\ [][NextPay]_vars

(* --------- a purchase and a stocking request in flight together -------- *)
(* Task 1 is a /buy of P1, task 2 an addInventory on the tier T1 of P2;    *)
(* they interleave at the awaited store reads and writes.                  *)

StockTarget == <<"P2", "T1">>

\* shop_add_inventory receives a request carrying one string never stocked
StartAdd(i) ==
    /\ tasks[i].pc = "idle"
    /\ nextCred <= MaxCred + 1
    /\ tasks' = [tasks EXCEPT ![i] =
                    [kind |-> "add", pc |-> "add_load", place |-> StockTarget,
                     items |-> <<nextCred>>, products |-> <<>>, status |-> 0]]
    /\ nextCred' = nextCred + 1
    /\ UNCHANGED <<accountVars, storageVars, products, orders, pending, now, nextToken, origin, last,
                   settledTokens>>

\* shop_add_inventory: products = await self._load_products(), then the
\* list of the product or tier is extended in what was loaded
AddLoad(i) ==
    LET task == tasks[i]
        r == shop_add_inventory(task.place[1], task.place[2], task.items)
    IN /\ task.pc = "add_load"
       /\ tasks' = [tasks EXCEPT ![i] =
              IF r.write THEN [task EXCEPT !.pc = "add_save", !.products = r.products]
              ELSE [task EXCEPT !.pc = "done", !.status = r.status]]
       /\ UNCHANGED <<accountVars, storageVars, products, orders, pending, now, nextCred, nextToken, origin,
                      last, settledTokens>>

\* shop_add_inventory: await self._save_products(products), then 200
AddSave(i) ==
    /\ tasks[i].pc = "add_save"
    /\ products' = tasks[i].products
    /\ tasks' = [tasks EXCEPT ![i] = [@ EXCEPT !.pc = "done", !.status = 200]]
    /\ UNCHANGED <<accountVars, storageVars, orders, pending, now, nextCred, nextToken, origin, last,
                   settledTokens>>

NextStock ==
    \/ StartBuy(1)
    \/ Prepare(1)
    \/ LoadProducts(1)
    \/ LoadOrders(1)
    \/ SaveProducts(1)
    \/ SaveOrders(1)
    \/ StartAdd(2)
    \/ AddLoad(2)
    \/ AddSave(2)

SpecStock == InitConc /\ [][NextStock]_vars

(* ------------------- the response cache of GET /products ---------------- *)
(* self._cache["products"] holds the last answer of GET /products with its *)
(* expiry; tasks is that entry here.  The handlers that write the products *)
(* document run to completion one at a time.                               *)

\* _public_product: the product without its inventory lists
_public_product(product) ==
    [id |-> product.id, price |-> product.price, stock |-> product.stock,
     tiers |-> List([j \in 1..Len(product.tiers) |->
                        [id |-> product.tiers[j].id, price |-> product.tiers[j].price,
                         stock |-> product.tiers[j].stock]])]

PublicProducts(ps) == List([i \in 1..Len(ps) |-> _public_product(ps[i])])

\* no entry under the key "products"
NoCache == [held |-> FALSE, value |-> <<>>, expired |-> FALSE]

\* _get_cache("products"): the value of an entry that has not expired
_get_cache(cache) == IF cache.held /\ ~cache.expired THEN <<cache.value>> ELSE <<>>

\* _set_cache("products", value): the entry with the expiry 15 s ahead
_set_cache(value) == [held |-> TRUE, value |-> value, expired |-> FALSE]

\* _invalidate_cache("products", "health")
_invalidate_cache(cache) == NoCache

InitCache ==
    /\ products = SeedProducts
    /\ orders = <<>>
    /\ pending = [k \in {} |-> 0]
    /\ now = 0
    /\ nextCred = 1
    /\ nextToken = 1
    /\ origin = <<>>
    /\ last = Response("init", 0, FALSE)
    /\ tasks = NoCache
    /\ settledTokens = {}
    /\ AccountsInit(<<DefaultAdmin>>, FALSE)
    /\ StorageInit

\* shop_products: the cached answer, or the stored catalogue, which is cached
shop_products ==
    LET cached == _get_cache(tasks)
        result == PublicProducts(_load_products)
    IN /\ tasks' = IF cached # <<>> THEN tasks ELSE _set_cache(result)
       /\ last' = Response("products", 200, FALSE)
                  @@ [products |-> IF cached # <<>> THEN cached[1] ELSE result]
       /\ UNCHANGED <<accountVars, storageVars, storeVars, now>>

\* the wall clock passes the expiry of the entry
CacheExpires ==
    /\ tasks.held /\ ~tasks.expired
    /\ tasks' = [tasks EXCEPT !.expired = TRUE]
    /\ UNCHANGED <<accountVars, storageVars, storeVars, now, last>>

\* shop_delete_product, which invalidates the entry after its save
DeleteInvalidating ==
    \E product_id \in {"P2"} :
        LET r == shop_delete_product(product_id) IN
        /\ products' = IF r.write THEN r.products ELSE products
        /\ tasks' = IF r.write THEN _invalidate_cache(tasks) ELSE tasks
        /\ last' = Response("delete", r.status, r.write)
        /\ UNCHANGED <<accountVars, storageVars, orders, pending, now, nextCred, nextToken, origin,
                       settledTokens>>

\* shop_buy, which invalidates the entry when _process_purchase returns an order
BuyInvalidating ==
    \E req \in CoreBuyRequests : \E t \in Clock(req.order.id) :
        LET r == shop_buy(req, t) IN
        /\ r.write => Len(orders) < MaxOrders
        /\ now' = IF r.write /\ req.order.id = "" THEN t ELSE now
        /\ products' = IF r.write THEN r.products ELSE products
        /\ orders' = IF r.write THEN r.orders ELSE orders
        /\ origin' = IF r.write THEN Append(origin, [via |-> "buy", token |-> 0])
                     ELSE origin
        /\ tasks' = IF r.status = 200 THEN _invalidate_cache(tasks) ELSE tasks
        /\ last' = PurchaseResponse("buy", r, 0, Len(req.order.items))
        /\ UNCHANGED <<accountVars, storageVars, pending, nextCred, nextToken, settledTokens>>

\* shop_upsert_product, shop_add_inventory and shop_update_stock leave the
\* cache as it is
NextCache ==
    \/ shop_products
    \/ CacheExpires
    \/ Upsert
    \/ DeleteInvalidating
    \/ AddInventory(CoreTargets)
    \/ UpdateStock({<<"P1", "">>})
    \/ BuyInvalidating

SpecCache == InitCache /\ [][NextCache]_vars

(* --------------- registrations, purchases and order reads --------------- *)
(* Visitors register, sign the requests with the token they were handed,    *)
(* buy, and read orders and invoices.  The response of GET /orders is kept  *)
(* as the set of its rows; their order (by createdAt) is not.               *)

\* _get_public_user_by_identity: the first row with that id and that e-mail
_get_public_user_by_identity(rows, user_id, email) ==
    LET hits == SelectSeq(_ensure_default_admin_user(rows, 0),
                          LAMBDA row : Strip(row.id) = Strip(user_id)
                                       /\ Lower(Strip(row.email)) = Lower(Strip(email)))
    IN IF hits = <<>> THEN NoRow ELSE hits[1]

\* matches_user_id or matches_user_email of shop_orders and shop_get_invoice
MatchesCaller(auth_user, order) ==
    \/ (auth_user.id # "" /\ order.userId = auth_user.id)
    \/ (auth_user.email # "" /\ order.user.email = auth_user.email)

\* shop_orders without query parameters
shop_orders(auth_user) ==
    IF auth_user.kind # "user" THEN [status |-> 401, orders |-> {}]
    ELSE [status |-> 200,
          orders |-> {orders[i] : i \in {j \in 1..Len(orders) :
                                          \/ auth_user.role = "admin"
                                          \/ MatchesCaller(auth_user, orders[j])}}]

\* shop_get_invoice: the first order carrying invoice_id
shop_get_invoice(auth_user, invoice_id) ==
    LET idx == ExistingOrder(orders, invoice_id)
        reject(code) == [status |-> code, invoice |-> NoOrder]
    IN IF auth_user.kind # "user" THEN reject(401)
       ELSE IF invoice_id = "" THEN reject(400)
       ELSE IF idx = 0 THEN reject(404)
       ELSE IF auth_user.role # "admin" /\ ~MatchesCaller(auth_user, orders[idx])
       THEN reject(403)
       ELSE [status |-> 200, invoice |-> orders[idx]]

ReadRegisterRequests == [email : {"a@x", "b@x"}, password : {"pw"}]
ReadOrderIds == {"o1", "o2"}

InitRead == AuthInit({<<DefaultAdmin>>}, FALSE, NoTasks)

RegisterRead ==
    \E req \in ReadRegisterRequests :
        Settle("register", shop_auth_register(req, now), NoToken, "")

\* what a read or a purchase answers to the caller of the token
ReadReply(op, auth_user, status, rows) ==
    [op |-> op, status |-> status, caller |-> auth_user, orders |-> rows]

\* /buy of one P1 by the holder of a token that was handed out
BuyRead ==
    \E m \in minted, order_id \in ReadOrderIds :
        LET auth_user == _parse_shop_session_from_request(m.token, now)
            session_user == _get_public_user_by_identity(users, auth_user.id, auth_user.email)
            req == BuyRequest([id |-> session_user.id, email |-> session_user.email],
                              order_id, <<Line("P1", "", 1)>>, "", FALSE)
            r == shop_buy(req, now)
        IN /\ auth_user.kind = "user"
           /\ session_user # NoRow
           /\ r.write => Len(orders) < MaxOrders
           /\ products' = IF r.write THEN r.products ELSE products
           /\ orders' = IF r.write THEN r.orders ELSE orders
           /\ origin' = IF r.write THEN Append(origin, [via |-> "buy", token |-> 0])
                        ELSE origin
           /\ last' = ReadReply("buy", auth_user, r.status,
                                IF r.status = 200 THEN {r.order} ELSE {})
           /\ UNCHANGED <<accountVars, storageVars, pending, now, nextCred, nextToken, tasks,
                          settledTokens>>

GetOrders ==
    \E m \in minted :
        LET auth_user == _parse_shop_session_from_request(m.token, now)
            r == shop_orders(auth_user)
        IN /\ last' = ReadReply("orders", auth_user, r.status, r.orders)
           /\ UNCHANGED <<accountVars, storageVars, storeVars, now, tasks>>

GetInvoice ==
    \E m \in minted, invoice_id \in ReadOrderIds :
        LET auth_user == _parse_shop_session_from_request(m.token, now)
            r == shop_get_invoice(auth_user, invoice_id)
        IN /\ last' = ReadReply("invoice", auth_user, r.status,
                                IF r.status = 200 THEN {r.invoice} ELSE {})
           /\ UNCHANGED <<accountVars, storageVars, storeVars, now, tasks>>

NextRead ==
    \/ RegisterRead
    \/ Tick
    \/ AddInventory({<<"P1", "">>})
    \/ BuyRead
    \/ GetOrders
    \/ GetInvoice

SpecRead == InitRead /\ [][NextRead]_vars

(* ======================= properties of the model ======================= *)

\* every place an order holds a delivered string: <<order, line key, position>>
Deliveries ==
    UNION {UNION {{<<o, k, j>> : j \in 1..Len(orders[o].credentials[k])} :
                     k \in DOMAIN orders[o].credentials} :
              o \in 1..Len(orders)}

DeliveredAt(d) == orders[d[1]].credentials[d[2]][d[3]]

Range(s) == {s[i] : i \in 1..Len(s)}

\* the strings held by any inventory list of the stored products document
InStock ==
    UNION {Range(products[i].inventory)
           \cup UNION {Range(products[i].tiers[j].inventory) :
                          j \in 1..Len(products[i].tiers)} :
              i \in 1..Len(products)}

\* C1: with every request run to completion before the next one starts, an
\* inventory entry is held by at most one order line of at most one order,
\* and an entry an order holds is in no inventory list any more.
C1_DeliveredAtMostOnce ==
    /\ \A d1, d2 \in Deliveries : DeliveredAt(d1) = DeliveredAt(d2) => d1 = d2
    /\ \A d \in Deliveries : DeliveredAt(d) \notin InStock

\* two orders, one recorded by /buy and one by /payments/confirm, each
\* holding an entry
C1_Witness ==
    /\ Len(orders) = 2
    /\ origin[1].via # origin[2].via
    /\ \E d1, d2 \in Deliveries : d1[1] = 1 /\ d2[1] = 2

\* the orders that carry the order id of a request and belong to its user
OwnOrders(req) ==
    {i \in 1..Len(orders) :
        /\ orders[i].id = req.order.id
        /\ \/ orders[i].userId = req.user.id
           \/ orders[i].user.email = req.user.email}

\* the request is well-formed: its cart passes _prepare_order_items and it is
\* not an unverified card payment, so shop_buy calls _process_purchase
ReachesPipeline(req) ==
    /\ _prepare_order_items(_load_products, req.order.items).status = 0
    /\ ~(req.paymentMethod = "card" /\ ~req.paymentVerified)

ListedAt(line) ==
    UNION {IF line.tierId = ""
           THEN {products[i].inventory}
           ELSE {products[i].tiers[j].inventory :
                    j \in {j \in 1..Len(products[i].tiers) :
                              products[i].tiers[j].id = line.tierId}} :
              i \in {i \in 1..Len(products) : products[i].id = line.productId}}

IsShort(line) == \E inventory \in ListedAt(line) : Len(inventory) < line.quantity
IsUnknown(line) == ListedAt(line) = {}

\* C5 as the specification words it: a /buy with a line asking for more
\* than the inventory list of its product or tier holds is answered 409
\* naming that product and tier, and saves neither an order nor a products
\* document.
C5_ShortLineAnswered409 ==
    \A req \in BuyRequests : \A k \in 1..Len(req.order.items) :
        IsShort(req.order.items[k])
        => LET r == shop_buy(req, now)
           IN /\ r.status = 409
              /\ r.productId = req.order.items[k].productId
              /\ r.tierId = req.order.items[k].tierId
              /\ ~r.write

\* the first short line of a cart
FirstShort(items) ==
    items[CHOOSE k \in 1..Len(items) :
             /\ IsShort(items[k])
             /\ \A j \in 1..(k - 1) : ~IsShort(items[j])]

\* C5, amended: a /buy with a short line saves neither an order nor a
\* products document; it is answered 409 naming the product and tier of its
\* first short line when it reaches the purchase pipeline and no order
\* carries its order id.
C5_ShortLineNeverSold ==
    \A req \in BuyRequests :
        (\E k \in 1..Len(req.order.items) : IsShort(req.order.items[k]))
        => LET r == shop_buy(req, now)
           IN /\ ~r.write
              /\ (/\ ReachesPipeline(req)
                  /\ \A i \in 1..Len(orders) :
                        req.order.id = "" \/ orders[i].id # req.order.id)
                 => /\ r.status = 409
                    /\ r.productId = FirstShort(req.order.items).productId
                    /\ r.tierId = FirstShort(req.order.items).tierId

\* a /buy of two entries of the tier P2::T1, which holds one, was answered 409
\* naming the tier
C5_Witness ==
    /\ last.op = "buy" /\ last.status = 409
    /\ last.productId = "P2" /\ last.tierId = "T1"
    /\ \E i \in 1..Len(products) :
          /\ products[i].id = "P2"
          /\ \E j \in 1..Len(products[i].tiers) :
                /\ products[i].tiers[j].id = "T1"
                /\ Len(products[i].tiers[j].inventory) = 1

\* C6: a /buy with several lines, one of them short or naming an unknown
\* product or tier, records nothing: it saves neither the products nor the
\* orders document and is not answered with a new order.
C6_AllOrNothing ==
    \A req \in BuyRequests :
        (/\ Len(req.order.items) > 1
         /\ \E k \in 1..Len(req.order.items) :
               IsShort(req.order.items[k]) \/ IsUnknown(req.order.items[k]))
        => LET r == shop_buy(req, now)
           IN /\ ~r.write
              /\ r.order \in {NoOrder} \cup {orders[i] : i \in 1..Len(orders)}

\* a two-line /buy was rejected for its line of P2::T1 while P1, the product
\* of its other line, had stock
C6_Witness ==
    /\ last.op = "buy" /\ last.lines = 2 /\ last.status = 409
    /\ last.productId = "P2" /\ last.tierId = "T1"
    /\ orders = <<>>
    /\ \E i \in 1..Len(products) :
          products[i].id = "P1" /\ Len(products[i].inventory) > 0

\* C7: in the stored products document every tier and every product
\* without tiers has stock = len(inventory), and every product with tiers
\* has stock = the sum of its tiers' stock.
C7_StockIsDerived ==
    \A i \in 1..Len(products) :
        LET product == products[i] IN
        /\ \A j \in 1..Len(product.tiers) :
              product.tiers[j].stock = Len(product.tiers[j].inventory)
        /\ IF Len(product.tiers) > 0
           THEN product.stock =
                    SumSeq([j \in 1..Len(product.tiers) |-> product.tiers[j].stock])
           ELSE product.stock = Len(product.inventory)

\* an upsert has just written a product whose tier holds an entry
C7_Witness ==
    /\ last.op = "upsert" /\ last.wrote
    /\ \E i \in 1..Len(products) : \E j \in 1..Len(products[i].tiers) :
          Len(products[i].tiers[j].inventory) > 0

\* C9 as the specification words it: every recorded order paid by card,
\* paypal or crypto was recorded by a /payments/confirm whose gateway
\* reported the payment of its token as settled.
C9_GatewayOrdersAreSettled ==
    \A i \in 1..Len(orders) :
        orders[i].paymentMethod \in GatewayMethods
        => /\ origin[i].via = "confirm"
           /\ origin[i].token \in settledTokens

\* the orders a /payments/confirm of the token has recorded
ConfirmedOrders(token) ==
    {orders[i] : i \in {i \in 1..Len(orders) :
                           origin[i] = [via |-> "confirm", token |-> token]}}

\* C10 as the specification words it: a /payments/confirm of a token whose
\* entry is already completed is answered with the order its first
\* successful confirm recorded.
C10_ConfirmReturnsCompletedOrder ==
    [][\A token \in DOMAIN pending :
          (pending[token].completed /\ last'.op = "confirm" /\ last'.token = token)
          => /\ last'.status = 200
             /\ last'.order \in ConfirmedOrders(token)]_vars

\* the price the stored products document gives the product or tier of a line
PriceAt(line) ==
    LET product == products[CHOOSE i \in 1..Len(products) :
                                products[i].id = line.productId]
    IN IF line.tierId = "" THEN product.price
       ELSE product.tiers[CHOOSE j \in 1..Len(product.tiers) :
                             product.tiers[j].id = line.tierId].price

\* the sum over the lines of server unit price times quantity, in cents
ServerSum(items) ==
    Round2(SumSeq([k \in 1..Len(items) |-> PriceAt(items[k]) * items[k].quantity]))

\* the request with other numbers in its total and its lines' price fields
Forge(req, amount) ==
    [req EXCEPT !.order.total = amount,
                !.order.items = [k \in 1..Len(@) |-> [@[k] EXCEPT !.price = amount]]]

\* C8 as the specification words it: two /buy requests that differ only in
\* the total and price fields they submit record orders with the same total
\* and the same unit prices, and the total is the sum over the lines of the
\* stored unit price times the quantity.
C8_TotalIsServerSum ==
    \A req \in BuyRequests : \A amount \in {0, 1, 5000} :
        LET a == shop_buy(req, now)
            b == shop_buy(Forge(req, amount), now)
        IN a.write
           => /\ b.write
              /\ b.order.total = a.order.total
              /\ \A k \in 1..Len(a.order.items) :
                    b.order.items[k].price = a.order.items[k].price
              /\ a.order.total = ServerSum(req.order.items)

\* C8, amended: the same, with the total being the sum over the lines of the
\* stored unit price rounded to cents times the quantity.
C8_TotalIgnoresClientPrices ==
    \A req \in BuyRequests : \A amount \in {0, 1, 5000} :
        LET a == shop_buy(req, now)
            b == shop_buy(Forge(req, amount), now)
        IN a.write
           => /\ b.write
              /\ b.order.total = a.order.total
              /\ \A k \in 1..Len(a.order.items) :
                    b.order.items[k].price = a.order.items[k].price
              /\ a.order.total =
                    Round2(SumSeq([k \in 1..Len(req.order.items) |->
                                      Round2(PriceAt(req.order.items[k]))
                                      * req.order.items[k].quantity]))

\* a /buy of two entries of the tier P2::T1 recorded an order at the stored
\* tier price, rounded, and not at the price the request carried
C8_Witness ==
    /\ last.op = "buy" /\ last.wrote
    /\ Len(last.order.items) = 1
    /\ last.order.items[1].tierId = "T1"
    /\ last.order.items[1].quantity = 2
    /\ last.order.items[1].price = Round2(PriceAt(last.order.items[1]))
    /\ last.order.items[1].price # Forged
    /\ last.order.total = 2 * last.order.items[1].price

(* --------------------- two requests in flight -------------------------- *)

\* the inventory entries the order answered by a task holds
Held(i) ==
    UNION {Range(tasks[i].answer.credentials[k]) :
              k \in DOMAIN tasks[i].answer.credentials}

HeldCount(i) ==
    Cardinality(UNION {{<<k, j>> : j \in 1..Len(tasks[i].answer.credentials[k])} :
                          k \in DOMAIN tasks[i].answer.credentials})

\* the tasks that confirmed a token and saved an order of their own for it
Recorders(token) ==
    {i \in TaskIds : /\ tasks[i].kind = "confirm"
                     /\ tasks[i].token = token
                     /\ tasks[i].appended}

\* the units the order stored with a pending payment asks for
PendingQuantity(token) ==
    SumSeq([k \in 1..Len(pending[token].order.items) |->
               pending[token].order.items[k].quantity])

\* C3: two purchases in flight at once; when each has recorded an order, no
\* inventory entry is held by both orders, and the two orders together hold
\* no more entries than were in stock before the purchases started (every
\* entry ever stocked is one of 1 .. nextCred - 1).
C3_ConcurrentOrdersDisjoint ==
    \A i, j \in TaskIds :
        (i # j /\ tasks[i].appended /\ tasks[j].appended)
        => /\ Held(i) \cap Held(j) = {}
           /\ HeldCount(i) + HeldCount(j) <= nextCred - 1

\* C4: whatever the order of the steps of the requests that confirm a
\* pending payment, the orders document holds at most one order recorded
\* for its token, and the entries taken out of inventory for the token are
\* no more than the one order asks for.
C4_OneOrderPerToken ==
    \A token \in DOMAIN pending :
        /\ Cardinality({k \in 1..Len(orders) :
                           \E i \in Recorders(token) : orders[k] = tasks[i].answer}) <= 1
        /\ Cardinality(UNION {Held(i) : i \in Recorders(token)})
              <= PendingQuantity(token)

\* C11: whatever the order of the steps of the /payments/create and
\* /payments/confirm requests in flight, an entry of the pending_payments
\* document that is completed is still there and still completed after
\* every later write of the document.
C11_CompletedStaysCompleted ==
    [][\A token \in DOMAIN pending :
          pending[token].completed
          => token \in DOMAIN pending' /\ pending'[token].completed]_vars

(* ------------------------ /payments/confirm ---------------------------- *)

\* the checks on the token, its owner and its method pass, so the gateway
\* is asked about the payment
GatewayAsked(req) == ConfirmGate(req, "error", 0) = 502

C13_UnverifiedCardRefused ==
    \A req \in BuyRequests :
        (req.paymentMethod = "card" /\ ~req.paymentVerified)
        => LET r == shop_buy(req, now)
           IN /\ ~r.write
              /\ r.products = products
              /\ r.orders = orders
              /\ r.order = NoOrder
              /\ (_prepare_order_items(_load_products, req.order.items).status = 0
                  => r.status = 402)

\* an unverified card /buy has just been answered 402 while its product
\* was in stock
C13_Witness ==
    /\ last.op = "buy"
    /\ last.status = 402
    /\ ~last.wrote
    /\ products[1].inventory # <<>>

HasList(ps, place) ==
    LET idx == FindProduct(ps, place[1])
    IN /\ idx # 0
       /\ place[2] # "" => _find_tier(ps[idx], place[2]) # 0

\* that list
InventoryAt(ps, place) ==
    LET idx == FindProduct(ps, place[1])
    IN IF place[2] = "" THEN ps[idx].inventory
       ELSE ps[idx].tiers[_find_tier(ps[idx], place[2])].inventory

\* every list of ps except the one at place is in qs with the same entries
OthersKept(ps, qs, place) ==
    \A other \in Targets \ {place} :
        HasList(ps, other)
        => HasList(qs, other) /\ InventoryAt(qs, other) = InventoryAt(ps, other)

\* the payload of an upsert carries an inventory array for the list at place
CarriesInventory(product, place) ==
    IF place[2] = "" THEN product.hasInventory
    ELSE /\ product.hasTiers
         /\ \E k \in 1..Len(product.tiers) :
               product.tiers[k].id = place[2] /\ product.tiers[k].hasInventory

\* C15: an upsert of a product the catalogue holds keeps every inventory
\* list of that product for which its payload carries no inventory array:
\* the entries of the list are the same after the upsert (none, when the
\* tier of the list is gone).
C15_UpsertKeepsInventory ==
    \A product \in CatUpsertPayloads(nextCred) :
        \A place \in {product.id} \X ({""} \cup TierIds) :
            (HasList(products, place) /\ ~CarriesInventory(product, place))
            => LET r == shop_upsert_product(product)
                   kept == IF HasList(r.products, place)
                           THEN InventoryAt(r.products, place) ELSE <<>>
               IN kept = InventoryAt(products, place)

C20_AdjustStockTrims ==
    \A target \in CatTargets, delta \in Deltas :
        LET r == shop_update_stock(target[1], target[2], delta)
        IN /\ delta > 0
              => /\ r.status \in {400, 404}
                 /\ ~r.write
                 /\ r.products = products
           /\ r.status = 200
              => /\ delta <= 0
                 /\ HasList(products, target)
                 /\ LET old == InventoryAt(products, target)
                        new == InventoryAt(r.products, target)
                    IN /\ new = SubSeq(old, 1, Max(0, Len(old) + delta))
                       /\ Len(new) <= Len(old)
                 /\ OthersKept(products, r.products, target)
                 /\ Len(r.products) = Len(products)

\* an adjusting request has just been answered 200 and, of the two strings
\* stocked so far, only the first is left
C20_Witness ==
    /\ last.op = "adjustStock"
    /\ last.status = 200
    /\ last.wrote
    /\ nextCred = 3
    /\ InStock = {1}
    /\ \E place \in Targets :
          HasList(products, place) /\ InventoryAt(products, place) = <<1>>

(* ------------------------------ orders --------------------------------- *)

\* C16: every line of every recorded order holds as many credential strings
\* under its line id as its quantity.
C16_LineHoldsQuantity ==
    \A i \in 1..Len(orders) :
        \A k \in 1..Len(orders[i].items) :
            LET item == orders[i].items[k]
            IN /\ item.id \in DOMAIN orders[i].credentials
               /\ Len(orders[i].credentials[item.id]) = item.quantity

\* C17: an order recorded with status completed is the same record (status,
\* items, total, credentials) after every later request, the order-status
\* endpoint included.
C17_CompletedOrderImmutable ==
    [][\A i \in 1..Len(orders) :
          orders[i].status = "completed"
          => i <= Len(orders') /\ orders'[i] = orders[i]]_vars

TokenBytes == {Dot, Pad, HighByte, "admin", "user", "a@x", "0", "9", "k1", ""}

\* the places of the payload part and of the signature part of a minted token
PartPlaces(token) == (1..Len(token)) \ {FirstDot(token)}

\* what a token is minted with
MintedWith(m) ==
    [kind |-> "user", id |-> Strip(m.user.id), email |-> m.user.email,
     role |-> m.user.role]

\* C21: a session token the server minted, presented unchanged before it
\* expires, verifies and gives the uid, e-mail and role it was minted with;
\* with one character of its payload part or of its signature part changed
\* it does not verify
C21_MintedTokenVerifies ==
    \A m \in minted :
        now < m.at + auth_session_ttl_seconds =>
            /\ _parse_shop_session_token(m.token, now) = MintedWith(m)
            /\ \A i \in PartPlaces(m.token), c \in TokenBytes :
                  c # m.token[i] =>
                      _parse_shop_session_token(Overwrite(m.token, i, c), now).kind
                          # "user"

\* the tokens minted for a user whose id is not blank
MintedWithId == {m \in minted : Strip(m.user.id) # ""}

\* the requests the router serves that the middleware does not let through
\* without a session
Private == {route \in ShopRoutes : ~_is_shop_public_request(route[1], route[2])}

AdminHandlers ==
    {"shop_get_state", "shop_set_state", "shop_upsert_product", "shop_delete_product",
     "shop_get_inventory", "shop_add_inventory", "shop_update_stock",
     "shop_upload_media", "shop_update_order_status", "shop_get_coupons",
     "shop_create_coupon", "shop_analytics", "shop_admin_summary"}

\* C23: the handler of a /shop route outside the public set runs only for a
\* valid, unexpired session token, the handler of an admin route only when the
\* role of that token is admin; every other request is answered 401 or 403
\* and changes nothing that is stored
C23_PrivateRoutesNeedSession ==
    /\ \A route \in Private, token \in Presented :
          LET decision == _auth_middleware(route[1], route[2], token, now)
              shop_user == _parse_shop_session_from_request(token, now)
          IN  /\ decision = 0 => shop_user.kind = "user"
              /\ (decision = 0 /\ route[3] \in AdminHandlers) => shop_user.role = "admin"
              /\ decision # 0 => decision \in {401, 403}
    /\ (last.op \in {"route", "setUsers"} /\ last.status # 200) => ~last.loaded

(* ------------------------- the second factor ---------------------------- *)

\* the last code of the account went out less than the resend interval ago
HeldBack(email) ==
    /\ login_otp_last_sent_at[email] # Never
    /\ now - login_otp_last_sent_at[email] < login_otp_min_interval_seconds

\* the answer of /login to req when the random strings and the e-mail go as told
LoginAnswer(req, otp_code, sent_ok) ==
    shop_auth_login(req, now, Len(sent) + 1, otp_code, sent_ok)

\* the logins of SpecOtp that carry the password of the account
CorrectLogins == {req \in OtpLogins : req.password = admin_password}

\* C24 as written: with the second factor ready every login with the correct
\* password is answered requires2fa=true with an otpToken and without a
\* session token
C24_LoginAlwaysAsksCode ==
    login_2fa_ready =>
        \A req \in CorrectLogins, otp_code \in Codes, sent_ok \in BOOLEAN :
            LET r == LoginAnswer(req, otp_code, sent_ok) IN
            r.requires2fa /\ r.otpToken # 0 /\ r.sessionToken = NoToken

\* C24: with the second factor ready no login is answered with a session
\* token; a login with the correct password is answered requires2fa=true with
\* an otpToken, or 429 when the account's last code went out less than the
\* resend interval ago, or 502 when the e-mail could not be sent; a session
\* token is issued only by /verify-otp for an otpToken it holds together with
\* the code made for it, after that code was sent to the account
C24_SessionOnlyAfterCode ==
    login_2fa_ready =>
        /\ \A req \in OtpLogins, otp_code \in Codes, sent_ok \in BOOLEAN :
              LET r == LoginAnswer(req, otp_code, sent_ok) IN
              /\ r.sessionToken = NoToken
              /\ req \in CorrectLogins =>
                    IF HeldBack(Lower(Strip(req.email))) THEN r.status = 429
                    ELSE IF ~sent_ok THEN r.status = 502
                    ELSE r.status = 200 /\ r.requires2fa /\ r.otpToken = Len(sent) + 1
              /\ r.requires2fa => req \in CorrectLogins
        /\ \A req \in VerifyRequests :
              LET r == shop_auth_verify_otp(req, now) IN
              r.sessionToken # NoToken =>
                  /\ req.otpToken \in DOMAIN login_otp_sessions
                  /\ login_otp_sessions[req.otpToken].code = req.code
                  /\ login_otp_sessions[req.otpToken].email = r.user.email
        /\ \A m \in minted :
              \E k \in 1..Len(sent) :
                  /\ sent[k].delivered
                  /\ sent[k].email = m.user.email
                  /\ sent[k].at <= m.at

\* /verify-otp has just issued a session token for a code that /login sent
C24_Witness ==
    /\ login_2fa_ready
    /\ last.op = "verify"
    /\ last.status = 200
    /\ last.sessionToken # NoToken
    /\ sent[last.otpToken].delivered
    /\ sent[last.otpToken].code = last.code

\* C25: an otpToken for which the maximum number of wrong codes was
\* submitted is held no longer, and /verify-otp answers 401 to it whatever
\* code comes with it, the correct one included
C25_ExhaustedTokenIsDead ==
    \A k \in 1..Len(sent) :
        sent[k].wrong >= login_otp_max_attempts =>
            /\ k \notin DOMAIN login_otp_sessions
            /\ \A code \in Codes :
                  LET r == shop_auth_verify_otp([otpToken |-> k, code |-> code], now) IN
                  r.status = 401 /\ r.sessionToken = NoToken

\* the correct code has just been refused for an exhausted otpToken that
\* would not have expired yet
C25_Witness ==
    /\ last.op = "verify"
    /\ last.status = 401
    /\ last.otpToken \in 1..Len(sent)
    /\ sent[last.otpToken].delivered
    /\ sent[last.otpToken].wrong >= login_otp_max_attempts
    /\ sent[last.otpToken].code = last.code
    /\ sent[last.otpToken].at + login_otp_ttl_seconds > now

\* C26: two one-time codes of one account are never sent less than the minimum
\* resend interval apart, however the logins of the account interleave
C26_CodesKeepInterval ==
    \A j \in 1..Len(sent), k \in 1..Len(sent) :
        (j < k /\ sent[j].delivered /\ sent[k].delivered
               /\ sent[j].email = sent[k].email)
            => sent[k].at - sent[j].at >= login_otp_min_interval_seconds

(* ------------------------- the users document --------------------------- *)

HasAdmin(rows) ==
    \E i \in 1..Len(rows) : rows[i].email = admin_email /\ rows[i].role = "admin"

\* C27: once a handler has read or written the users document it holds a user
\* with the configured admin e-mail and the role admin, and whatever list is
\* PUT the document stored for it holds that user
C27_AdminAlwaysThere ==
    /\ last.loaded => HasAdmin(users)
    /\ \A state_value \in UserLists :
          HasAdmin(shop_set_state_users(state_value, now).users)

\* the administrator has just PUT a list that names the admin e-mail with the
\* role user, and the stored row is an admin
C27_Witness ==
    /\ last.op = "setUsers"
    /\ last.status = 200
    /\ \E i \in 1..Len(users) :
          users[i].id = "x9" /\ users[i].email = admin_email /\ users[i].role = "admin"

\* C28: no two users of the stored users document have the same case-folded
\* e-mail, and a register call for an e-mail already there is answered 409 and
\* leaves the document as it is
C28_EmailsAreUnique ==
    /\ \A i \in 1..Len(users), j \in 1..Len(users) :
          i < j => Lower(users[i].email) # Lower(users[j].email)
    /\ \A req \in RegisterRequests :
          LET r == shop_auth_register(req, now) IN
          (\E i \in 1..Len(users) : Lower(users[i].email) = Lower(Strip(req.email)))
              => r.status = 409 /\ r.users = _load_state_users(now)

(* ------------------------------- storage -------------------------------- *)

\* the file exists and holds a JSON document
Readable(fl, path) == path \in DOMAIN fl /\ Loads(fl[path]).ok

C30_FallbackOrFatal ==
    /\ [](storage.failed =>
            IF storage.require_supabase_storage
            THEN storage.raised /\ ~storage.runner
            ELSE storage.runner /\ ~storage.raised)
    /\ [][ (storage.failed /\ ~storage.require_supabase_storage) =>
              /\ shop_kv' = shop_kv
              /\ last'.op = "load" =>
                    LET d == DocumentOf(last'.key)
                        data == _read_json(files, d.path, d.default)
                    IN  last'.value = IF data.type = d.default.type THEN data
                                      ELSE d.default
              /\ last'.op = "save" =>
                    LET d == DocumentOf(last'.key) IN
                    /\ d.path \in DOMAIN files'
                    /\ Loads(files'[d.path]).value = last'.value ]_vars

\* the pool was opened, initialisation failed after it, the server was not
\* required to use the table and has just saved a document
C30_Witness ==
    /\ storage.failed
    /\ ~storage.require_supabase_storage
    /\ storage.pg_pool
    /\ storage.runner
    /\ last.op = "save"
    /\ DOMAIN shop_kv # {}

(* ------------------------- retries of a purchase ------------------------ *)

\* C31: when a purchase failed after the products document was written and
\* the same request, sent again, succeeds, the inventory list of its line is
\* shorter than before the first attempt by the line's quantity
C31_RetryTakesOnce ==
    (tasks.phase = "retried" /\ last.op = "retry" /\ last.status = 200)
        => \A i \in 1..Len(tasks.req.order.items) :
              LET line == tasks.req.order.items[i]
                  place == <<line.productId, line.tierId>>
              IN  Len(InventoryAt(products, place))
                      = Len(InventoryAt(tasks.before, place)) - line.quantity

(* ---------------------------- delivery order ---------------------------- *)

\* the place of the line of order o that carries the line key k
PlaceOf(o, k) ==
    LET line == CHOOSE l \in Range(o.items) : l.id = k
    IN  <<line.productId, line.tierId>>

C33_CardSettlesOwnTokenOnly ==
    \A req \in ConfirmRequests, gw \in GatewayAnswers :
        LET r == shop_confirm_payment(req, gw[1], gw[2], now) IN
        (/\ req.token \in DOMAIN pending
         /\ pending[req.token].paymentMethod \notin {"paypal", "crypto"}
         /\ r.write)
            => gw[1] = "paid" /\ gw[2] = req.token

(* --------------------------- tiered products ---------------------------- *)

Tiered(ps, product_id) ==
    LET idx == FindProduct(ps, product_id)
    IN  idx # 0 /\ Len(ps[idx].tiers) > 0

\* C34: addInventory without a tier id on a product that has tiers is
\* rejected and writes nothing, and the product-level list of a product that
\* has tiers holds no string
C34_TieredStockInTiersOnly ==
    /\ \A product_id \in ProductIds, raw_items \in StockPayloads(nextCred) :
          LET r == shop_add_inventory(product_id, "", raw_items) IN
          Tiered(_load_products, product_id) => ~r.write /\ r.status # 200
    /\ \A i \in 1..Len(products) :
          Len(products[i].tiers) > 0 => products[i].inventory = <<>>

\* C35: while the card method is disabled (its switch is off or the card
\* gateway key is not set), a /payments/create request writes no pending
\* payment that leads to the card checkout: whatever it writes is an entry
\* of one of the other two gateways
C35_NoCardEntryWhileCardDisabled ==
    [][(/\ last'.op = "create"
        /\ ~(tasks.stripe_secret_key /\ tasks.payment_methods["card"]))
       => \A k \in (DOMAIN pending') \ (DOMAIN pending) :
              pending'[k].paymentMethod \in {"paypal", "crypto"}]_vars

(* --------------------------- nothing is lost ---------------------------- *)

\* every string in an inventory list of ps
StockedIn(ps) ==
    UNION {Range(ps[i].inventory)
               \cup UNION {Range(ps[i].tiers[j].inventory) : j \in 1..Len(ps[i].tiers)} :
           i \in 1..Len(ps)}

\* every string in the credentials map of order o
DeliveredBy(o) == UNION {Range(o.credentials[k]) : k \in DOMAIN o.credentials}

\* C36: every string a completed purchase removes from an inventory list is
\* in the credentials map of the order it records, also when two lines of
\* the cart name the same product
C36_NoCredentialLost ==
    [][(last'.op = "buy" /\ last'.wrote)
       => (StockedIn(products) \ StockedIn(products')) \subseteq DeliveredBy(last'.order)]_vars

(* --------------------- stocking against a purchase ---------------------- *)

\* C37: once the addInventory on P2's tier has answered 200 and the purchase
\* of P1 in flight with it has finished, the tier's list holds the strings
\* that were added, whatever the order of their store reads and writes
C37_StockingSurvivesPurchase ==
    (/\ tasks[2].kind = "add" /\ tasks[2].pc = "done" /\ tasks[2].status = 200
     /\ tasks[1].pc \in {"idle", "done"})
    => Range(tasks[2].items) \subseteq Range(InventoryAt(products, tasks[2].place))

(* ------------------------------ order ids ------------------------------- *)

\* C38: no two orders of the orders document carry the same id, generated
\* ids included
C38_OrderIdsDistinct ==
    \A i, j \in 1..Len(orders) : i # j => orders[i].id # orders[j].id

(* ----------------------------- the cache -------------------------------- *)

\* C39: GET /products answers the catalogue and the stock counts of the
\* stored products document, whichever handler wrote it last
C39_ProductsResponseCurrent ==
    [][last'.op = "products" => last'.products = PublicProducts(products')]_vars

(* ------------------------------ order reads ----------------------------- *)

\* C40: an order that GET /orders or GET /invoices/{id} hands to a caller
\* who is no admin was bought by the account of the caller's e-mail
C40_OwnOrdersOnly ==
    (last.op \in {"orders", "invoice"} /\ last.caller.role # "admin")
    => \A o \in last.orders : o.user.email = last.caller.email

====
